---- MODULE Spec2Model ----
(***************************************************************************)
(* Model of the plan generation logic of the study planner backend        *)
(* (src/app.py, generate_simple_plan and pick_hint), and of the handlers   *)
(* register, login, generate_plan and update_progress over the in-memory   *)
(* stores, served on concurrent threads.                                   *)
(*                                                                         *)
(* generate_simple_plan is modelled as a step machine: one action for the  *)
(* prologue (parsing daily_hours, quota, base minutes), one for the head   *)
(* of each iteration of the for loop, one for each iteration of the inner  *)
(* while loop, and one for the return.                                     *)
(*                                                                         *)
(* Values of daily_hours are records [type, num, den, chars]:              *)
(*   type "none" : Python None (key absent)                                *)
(*   type "num"  : a JSON number, equal to num/den hours                   *)
(*   type "str"  : a JSON string, chars is its sequence of code points     *)
(* A float is kept as its exact binary value (sign, odd mantissa, binary   *)
(* exponent), and float(), hours * 60 and int() round as IEEE 754 does.    *)
(***************************************************************************)
EXTENDS Integers, Sequences, FiniteSets, Bags, TLC

\* ------------------------------------------------------------------ bounds
MaxTopics == 3
MaxPlanLen == 12
MaxUsers == 2
MaxPlans == 2
MaxThreads == 2
MaxRequests == 5
MaxCompleted == 1
MaxStudyTime == 25
MaxQuota == 100000

\* ------------------------------------------------------------- conversions
\* A character is its Unicode code point, and a string that the program
\* converts (float(), str.strip(), str.lower()) is the sequence of its
\* characters.  The tables are those of Python 3.11 (Unicode 14).

\* the printable ASCII characters, U+0020 to U+007E in order; the grave accent
\* U+0060 stands as its escaped text
Printable ==
    << " ", "!", "\"", "#", "$", "%", "&", "'", "(", ")", "*", "+", ",", "-", ".", "/", "0", "1",
       "2", "3", "4", "5", "6", "7", "8", "9", ":", ";", "<", "=", ">", "?", "@", "A", "B", "C",
       "D", "E", "F", "G", "H", "I", "J", "K", "L", "M", "N", "O", "P", "Q", "R", "S", "T", "U",
       "V", "W", "X", "Y", "Z", "[", "\\", "]", "^", "_", "\\000060", "a", "b", "c", "d", "e",
       "f", "g", "h", "i", "j", "k", "l", "m", "n", "o", "p", "q", "r", "s", "t", "u", "v", "w",
       "x", "y", "z", "{", "|", "}", "~" >>

\* ord(ch) of a printable ASCII character
Ord(ch) == 31 + (CHOOSE k \in 1..Len(Printable) : Printable[k] = ch)

\* the string written with the printable ASCII characters of word
Codes(word) == [k \in 1..Len(word) |-> Ord(word[k])]

Max(a, b) == IF a >= b THEN a ELSE b

Min(a, b) == IF a <= b THEN a ELSE b

\* the greatest and the least element of a non-empty set of integers
Greatest(S) == CHOOSE x \in S : \A y \in S : y <= x

Least(S) == CHOOSE x \in S : \A y \in S : x <= y

\* the characters with the digit value 0; the nine characters after each
\* are its digits 1 to 9 (the decimal digits of Unicode, ASCII's included)
DigitZeros ==
    { 48, 1632, 1776, 1984, 2406, 2534, 2662, 2790, 2918, 3046, 3174, 3302, 3430, 3558, 3664,
      3792, 3872, 4160, 4240, 6112, 6160, 6470, 6608, 6784, 6800, 6992, 7088, 7232, 7248, 42528,
      43216, 43264, 43472, 43504, 43600, 44016, 65296, 66720, 68912, 69734, 69872, 69942, 70096,
      70384, 70736, 70864, 71248, 71360, 71472, 71904, 72016, 72784, 73040, 73120, 92768, 92864,
      93008, 120782, 120792, 120802, 120812, 120822, 123200, 123632, 125264, 130032 }

IsDigit(c) == \E z \in DigitZeros : z <= c /\ c <= z + 9

DigitVal(c) == c - (CHOOSE z \in DigitZeros : z <= c /\ c <= z + 9)

\* the characters float() skips at both ends of a string: \t, \n, \v, \f,
\* \r, the blank, and the whitespace beyond ASCII
FloatSpace ==
    (9..13) \cup {32}
    \cup { 133, 160, 5760, 8192, 8193, 8194, 8195, 8196, 8197, 8198, 8199, 8200, 8201, 8202, 8232,
           8233, 8239, 8287, 12288 }

\* the characters str.strip() removes: those and U+001C to U+001F
StripSpace == FloatSpace \cup (28..31)

\* the characters str.lower() changes to one other character: from r[1] to
\* r[2] in steps of r[3], each changed to the character r[4] places on
LowerRanges ==
    { <<65, 90, 1, 32>>, <<192, 214, 1, 32>>, <<216, 222, 1, 32>>, <<256, 302, 2, 1>>,
      <<306, 310, 2, 1>>, <<313, 327, 2, 1>>, <<330, 374, 2, 1>>, <<376, 376, 1, -121>>,
      <<377, 381, 2, 1>>, <<385, 385, 1, 210>>, <<386, 388, 2, 1>>, <<390, 390, 1, 206>>,
      <<391, 391, 1, 1>>, <<393, 394, 1, 205>>, <<395, 395, 1, 1>>, <<398, 398, 1, 79>>,
      <<399, 399, 1, 202>>, <<400, 400, 1, 203>>, <<401, 401, 1, 1>>, <<403, 403, 1, 205>>,
      <<404, 404, 1, 207>>, <<406, 406, 1, 211>>, <<407, 407, 1, 209>>, <<408, 408, 1, 1>>,
      <<412, 412, 1, 211>>, <<413, 413, 1, 213>>, <<415, 415, 1, 214>>, <<416, 420, 2, 1>>,
      <<422, 422, 1, 218>>, <<423, 423, 1, 1>>, <<425, 425, 1, 218>>, <<428, 428, 1, 1>>,
      <<430, 430, 1, 218>>, <<431, 431, 1, 1>>, <<433, 434, 1, 217>>, <<435, 437, 2, 1>>,
      <<439, 439, 1, 219>>, <<440, 440, 1, 1>>, <<444, 444, 1, 1>>, <<452, 452, 1, 2>>,
      <<453, 453, 1, 1>>, <<455, 455, 1, 2>>, <<456, 456, 1, 1>>, <<458, 458, 1, 2>>,
      <<459, 475, 2, 1>>, <<478, 494, 2, 1>>, <<497, 497, 1, 2>>, <<498, 500, 2, 1>>,
      <<502, 502, 1, -97>>, <<503, 503, 1, -56>>, <<504, 542, 2, 1>>, <<544, 544, 1, -130>>,
      <<546, 562, 2, 1>>, <<570, 570, 1, 10795>>, <<571, 571, 1, 1>>, <<573, 573, 1, -163>>,
      <<574, 574, 1, 10792>>, <<577, 577, 1, 1>>, <<579, 579, 1, -195>>, <<580, 580, 1, 69>>,
      <<581, 581, 1, 71>>, <<582, 590, 2, 1>>, <<880, 882, 2, 1>>, <<886, 886, 1, 1>>,
      <<895, 895, 1, 116>>, <<902, 902, 1, 38>>, <<904, 906, 1, 37>>, <<908, 908, 1, 64>>,
      <<910, 911, 1, 63>>, <<913, 929, 1, 32>>, <<931, 939, 1, 32>>, <<975, 975, 1, 8>>,
      <<984, 1006, 2, 1>>, <<1012, 1012, 1, -60>>, <<1015, 1015, 1, 1>>, <<1017, 1017, 1, -7>>,
      <<1018, 1018, 1, 1>>, <<1021, 1023, 1, -130>>, <<1024, 1039, 1, 80>>,
      <<1040, 1071, 1, 32>>, <<1120, 1152, 2, 1>>, <<1162, 1214, 2, 1>>, <<1216, 1216, 1, 15>>,
      <<1217, 1229, 2, 1>>, <<1232, 1326, 2, 1>>, <<1329, 1366, 1, 48>>, <<4256, 4293, 1, 7264>>,
      <<4295, 4295, 1, 7264>>, <<4301, 4301, 1, 7264>>, <<5024, 5103, 1, 38864>>,
      <<5104, 5109, 1, 8>>, <<7312, 7354, 1, -3008>>, <<7357, 7359, 1, -3008>>,
      <<7680, 7828, 2, 1>>, <<7838, 7838, 1, -7615>>, <<7840, 7934, 2, 1>>,
      <<7944, 7951, 1, -8>>, <<7960, 7965, 1, -8>>, <<7976, 7983, 1, -8>>, <<7992, 7999, 1, -8>>,
      <<8008, 8013, 1, -8>>, <<8025, 8031, 2, -8>>, <<8040, 8047, 1, -8>>, <<8072, 8079, 1, -8>>,
      <<8088, 8095, 1, -8>>, <<8104, 8111, 1, -8>>, <<8120, 8121, 1, -8>>,
      <<8122, 8123, 1, -74>>, <<8124, 8124, 1, -9>>, <<8136, 8139, 1, -86>>,
      <<8140, 8140, 1, -9>>, <<8152, 8153, 1, -8>>, <<8154, 8155, 1, -100>>,
      <<8168, 8169, 1, -8>>, <<8170, 8171, 1, -112>>, <<8172, 8172, 1, -7>>,
      <<8184, 8185, 1, -128>>, <<8186, 8187, 1, -126>>, <<8188, 8188, 1, -9>>,
      <<8486, 8486, 1, -7517>>, <<8490, 8490, 1, -8383>>, <<8491, 8491, 1, -8262>>,
      <<8498, 8498, 1, 28>>, <<8544, 8559, 1, 16>>, <<8579, 8579, 1, 1>>, <<9398, 9423, 1, 26>>,
      <<11264, 11311, 1, 48>>, <<11360, 11360, 1, 1>>, <<11362, 11362, 1, -10743>>,
      <<11363, 11363, 1, -3814>>, <<11364, 11364, 1, -10727>>, <<11367, 11371, 2, 1>>,
      <<11373, 11373, 1, -10780>>, <<11374, 11374, 1, -10749>>, <<11375, 11375, 1, -10783>>,
      <<11376, 11376, 1, -10782>>, <<11378, 11378, 1, 1>>, <<11381, 11381, 1, 1>>,
      <<11390, 11391, 1, -10815>>, <<11392, 11490, 2, 1>>, <<11499, 11501, 2, 1>>,
      <<11506, 11506, 1, 1>>, <<42560, 42604, 2, 1>>, <<42624, 42650, 2, 1>>,
      <<42786, 42798, 2, 1>>, <<42802, 42862, 2, 1>>, <<42873, 42875, 2, 1>>,
      <<42877, 42877, 1, -35332>>, <<42878, 42886, 2, 1>>, <<42891, 42891, 1, 1>>,
      <<42893, 42893, 1, -42280>>, <<42896, 42898, 2, 1>>, <<42902, 42920, 2, 1>>,
      <<42922, 42922, 1, -42308>>, <<42923, 42923, 1, -42319>>, <<42924, 42924, 1, -42315>>,
      <<42925, 42925, 1, -42305>>, <<42926, 42926, 1, -42308>>, <<42928, 42928, 1, -42258>>,
      <<42929, 42929, 1, -42282>>, <<42930, 42930, 1, -42261>>, <<42931, 42931, 1, 928>>,
      <<42932, 42946, 2, 1>>, <<42948, 42948, 1, -48>>, <<42949, 42949, 1, -42307>>,
      <<42950, 42950, 1, -35384>>, <<42951, 42953, 2, 1>>, <<42960, 42960, 1, 1>>,
      <<42966, 42968, 2, 1>>, <<42997, 42997, 1, 1>>, <<65313, 65338, 1, 32>>,
      <<66560, 66599, 1, 40>>, <<66736, 66771, 1, 40>>, <<66928, 66938, 1, 39>>,
      <<66940, 66954, 1, 39>>, <<66956, 66962, 1, 39>>, <<66964, 66965, 1, 39>>,
      <<68736, 68786, 1, 64>>, <<71840, 71871, 1, 32>>, <<93760, 93791, 1, 32>>,
      <<125184, 125217, 1, 34>> }

Lowers(r, c) == r[1] <= c /\ c <= r[2] /\ (c - r[1]) % r[3] = 0

LowerChar(c) ==
    IF \E r \in LowerRanges : Lowers(r, c)
    THEN c + (CHOOSE r \in LowerRanges : Lowers(r, c))[4]
    ELSE c

\* the case-ignorable characters, from r[1] to r[2]
IgnorableRanges ==
    { <<39, 39>>, <<46, 46>>, <<58, 58>>, <<94, 94>>, <<96, 96>>, <<168, 168>>, <<173, 173>>,
      <<175, 175>>, <<180, 180>>, <<183, 184>>, <<688, 879>>, <<884, 885>>, <<890, 890>>,
      <<900, 901>>, <<903, 903>>, <<1155, 1161>>, <<1369, 1369>>, <<1375, 1375>>, <<1425, 1469>>,
      <<1471, 1471>>, <<1473, 1474>>, <<1476, 1477>>, <<1479, 1479>>, <<1524, 1524>>,
      <<1536, 1541>>, <<1552, 1562>>, <<1564, 1564>>, <<1600, 1600>>, <<1611, 1631>>,
      <<1648, 1648>>, <<1750, 1757>>, <<1759, 1768>>, <<1770, 1773>>, <<1807, 1807>>,
      <<1809, 1809>>, <<1840, 1866>>, <<1958, 1968>>, <<2027, 2037>>, <<2042, 2042>>,
      <<2045, 2045>>, <<2070, 2093>>, <<2137, 2139>>, <<2184, 2184>>, <<2192, 2193>>,
      <<2200, 2207>>, <<2249, 2306>>, <<2362, 2362>>, <<2364, 2364>>, <<2369, 2376>>,
      <<2381, 2381>>, <<2385, 2391>>, <<2402, 2403>>, <<2417, 2417>>, <<2433, 2433>>,
      <<2492, 2492>>, <<2497, 2500>>, <<2509, 2509>>, <<2530, 2531>>, <<2558, 2558>>,
      <<2561, 2562>>, <<2620, 2620>>, <<2625, 2626>>, <<2631, 2632>>, <<2635, 2637>>,
      <<2641, 2641>>, <<2672, 2673>>, <<2677, 2677>>, <<2689, 2690>>, <<2748, 2748>>,
      <<2753, 2757>>, <<2759, 2760>>, <<2765, 2765>>, <<2786, 2787>>, <<2810, 2815>>,
      <<2817, 2817>>, <<2876, 2876>>, <<2879, 2879>>, <<2881, 2884>>, <<2893, 2893>>,
      <<2901, 2902>>, <<2914, 2915>>, <<2946, 2946>>, <<3008, 3008>>, <<3021, 3021>>,
      <<3072, 3072>>, <<3076, 3076>>, <<3132, 3132>>, <<3134, 3136>>, <<3142, 3144>>,
      <<3146, 3149>>, <<3157, 3158>>, <<3170, 3171>>, <<3201, 3201>>, <<3260, 3260>>,
      <<3263, 3263>>, <<3270, 3270>>, <<3276, 3277>>, <<3298, 3299>>, <<3328, 3329>>,
      <<3387, 3388>>, <<3393, 3396>>, <<3405, 3405>>, <<3426, 3427>>, <<3457, 3457>>,
      <<3530, 3530>>, <<3538, 3540>>, <<3542, 3542>>, <<3633, 3633>>, <<3636, 3642>>,
      <<3654, 3662>>, <<3761, 3761>>, <<3764, 3772>>, <<3782, 3782>>, <<3784, 3789>>,
      <<3864, 3865>>, <<3893, 3893>>, <<3895, 3895>>, <<3897, 3897>>, <<3953, 3966>>,
      <<3968, 3972>>, <<3974, 3975>>, <<3981, 3991>>, <<3993, 4028>>, <<4038, 4038>>,
      <<4141, 4144>>, <<4146, 4151>>, <<4153, 4154>>, <<4157, 4158>>, <<4184, 4185>>,
      <<4190, 4192>>, <<4209, 4212>>, <<4226, 4226>>, <<4229, 4230>>, <<4237, 4237>>,
      <<4253, 4253>>, <<4348, 4348>>, <<4957, 4959>>, <<5906, 5908>>, <<5938, 5939>>,
      <<5970, 5971>>, <<6002, 6003>>, <<6068, 6069>>, <<6071, 6077>>, <<6086, 6086>>,
      <<6089, 6099>>, <<6103, 6103>>, <<6109, 6109>>, <<6155, 6159>>, <<6211, 6211>>,
      <<6277, 6278>>, <<6313, 6313>>, <<6432, 6434>>, <<6439, 6440>>, <<6450, 6450>>,
      <<6457, 6459>>, <<6679, 6680>>, <<6683, 6683>>, <<6742, 6742>>, <<6744, 6750>>,
      <<6752, 6752>>, <<6754, 6754>>, <<6757, 6764>>, <<6771, 6780>>, <<6783, 6783>>,
      <<6823, 6823>>, <<6832, 6862>>, <<6912, 6915>>, <<6964, 6964>>, <<6966, 6970>>,
      <<6972, 6972>>, <<6978, 6978>>, <<7019, 7027>>, <<7040, 7041>>, <<7074, 7077>>,
      <<7080, 7081>>, <<7083, 7085>>, <<7142, 7142>>, <<7144, 7145>>, <<7149, 7149>>,
      <<7151, 7153>>, <<7212, 7219>>, <<7222, 7223>>, <<7288, 7293>>, <<7376, 7378>>,
      <<7380, 7392>>, <<7394, 7400>>, <<7405, 7405>>, <<7412, 7412>>, <<7416, 7417>>,
      <<7468, 7530>>, <<7544, 7544>>, <<7579, 7679>>, <<8125, 8125>>, <<8127, 8129>>,
      <<8141, 8143>>, <<8157, 8159>>, <<8173, 8175>>, <<8189, 8190>>, <<8203, 8207>>,
      <<8216, 8217>>, <<8228, 8228>>, <<8231, 8231>>, <<8234, 8238>>, <<8288, 8292>>,
      <<8294, 8303>>, <<8305, 8305>>, <<8319, 8319>>, <<8336, 8348>>, <<8400, 8432>>,
      <<11388, 11389>>, <<11503, 11505>>, <<11631, 11631>>, <<11647, 11647>>, <<11744, 11775>>,
      <<11823, 11823>>, <<12293, 12293>>, <<12330, 12333>>, <<12337, 12341>>, <<12347, 12347>>,
      <<12441, 12446>>, <<12540, 12542>>, <<40981, 40981>>, <<42232, 42237>>, <<42508, 42508>>,
      <<42607, 42610>>, <<42612, 42621>>, <<42623, 42623>>, <<42652, 42655>>, <<42736, 42737>>,
      <<42752, 42785>>, <<42864, 42864>>, <<42888, 42890>>, <<42994, 42996>>, <<43000, 43001>>,
      <<43010, 43010>>, <<43014, 43014>>, <<43019, 43019>>, <<43045, 43046>>, <<43052, 43052>>,
      <<43204, 43205>>, <<43232, 43249>>, <<43263, 43263>>, <<43302, 43309>>, <<43335, 43345>>,
      <<43392, 43394>>, <<43443, 43443>>, <<43446, 43449>>, <<43452, 43453>>, <<43471, 43471>>,
      <<43493, 43494>>, <<43561, 43566>>, <<43569, 43570>>, <<43573, 43574>>, <<43587, 43587>>,
      <<43596, 43596>>, <<43632, 43632>>, <<43644, 43644>>, <<43696, 43696>>, <<43698, 43700>>,
      <<43703, 43704>>, <<43710, 43711>>, <<43713, 43713>>, <<43741, 43741>>, <<43756, 43757>>,
      <<43763, 43764>>, <<43766, 43766>>, <<43867, 43871>>, <<43881, 43883>>, <<44005, 44005>>,
      <<44008, 44008>>, <<44013, 44013>>, <<64286, 64286>>, <<64434, 64450>>, <<65024, 65039>>,
      <<65043, 65043>>, <<65056, 65071>>, <<65106, 65106>>, <<65109, 65109>>, <<65279, 65279>>,
      <<65287, 65287>>, <<65294, 65294>>, <<65306, 65306>>, <<65342, 65342>>, <<65344, 65344>>,
      <<65392, 65392>>, <<65438, 65439>>, <<65507, 65507>>, <<65529, 65531>>, <<66045, 66045>>,
      <<66272, 66272>>, <<66422, 66426>>, <<67456, 67461>>, <<67463, 67504>>, <<67506, 67514>>,
      <<68097, 68099>>, <<68101, 68102>>, <<68108, 68111>>, <<68152, 68154>>, <<68159, 68159>>,
      <<68325, 68326>>, <<68900, 68903>>, <<69291, 69292>>, <<69446, 69456>>, <<69506, 69509>>,
      <<69633, 69633>>, <<69688, 69702>>, <<69744, 69744>>, <<69747, 69748>>, <<69759, 69761>>,
      <<69811, 69814>>, <<69817, 69818>>, <<69821, 69821>>, <<69826, 69826>>, <<69837, 69837>>,
      <<69888, 69890>>, <<69927, 69931>>, <<69933, 69940>>, <<70003, 70003>>, <<70016, 70017>>,
      <<70070, 70078>>, <<70089, 70092>>, <<70095, 70095>>, <<70191, 70193>>, <<70196, 70196>>,
      <<70198, 70199>>, <<70206, 70206>>, <<70367, 70367>>, <<70371, 70378>>, <<70400, 70401>>,
      <<70459, 70460>>, <<70464, 70464>>, <<70502, 70508>>, <<70512, 70516>>, <<70712, 70719>>,
      <<70722, 70724>>, <<70726, 70726>>, <<70750, 70750>>, <<70835, 70840>>, <<70842, 70842>>,
      <<70847, 70848>>, <<70850, 70851>>, <<71090, 71093>>, <<71100, 71101>>, <<71103, 71104>>,
      <<71132, 71133>>, <<71219, 71226>>, <<71229, 71229>>, <<71231, 71232>>, <<71339, 71339>>,
      <<71341, 71341>>, <<71344, 71349>>, <<71351, 71351>>, <<71453, 71455>>, <<71458, 71461>>,
      <<71463, 71467>>, <<71727, 71735>>, <<71737, 71738>>, <<71995, 71996>>, <<71998, 71998>>,
      <<72003, 72003>>, <<72148, 72151>>, <<72154, 72155>>, <<72160, 72160>>, <<72193, 72202>>,
      <<72243, 72248>>, <<72251, 72254>>, <<72263, 72263>>, <<72273, 72278>>, <<72281, 72283>>,
      <<72330, 72342>>, <<72344, 72345>>, <<72752, 72758>>, <<72760, 72765>>, <<72767, 72767>>,
      <<72850, 72871>>, <<72874, 72880>>, <<72882, 72883>>, <<72885, 72886>>, <<73009, 73014>>,
      <<73018, 73018>>, <<73020, 73021>>, <<73023, 73029>>, <<73031, 73031>>, <<73104, 73105>>,
      <<73109, 73109>>, <<73111, 73111>>, <<73459, 73460>>, <<78896, 78904>>, <<92912, 92916>>,
      <<92976, 92982>>, <<92992, 92995>>, <<94031, 94031>>, <<94095, 94111>>, <<94176, 94177>>,
      <<94179, 94180>>, <<110576, 110579>>, <<110581, 110587>>, <<110589, 110590>>,
      <<113821, 113822>>, <<113824, 113827>>, <<118528, 118573>>, <<118576, 118598>>,
      <<119143, 119145>>, <<119155, 119170>>, <<119173, 119179>>, <<119210, 119213>>,
      <<119362, 119364>>, <<121344, 121398>>, <<121403, 121452>>, <<121461, 121461>>,
      <<121476, 121476>>, <<121499, 121503>>, <<121505, 121519>>, <<122880, 122886>>,
      <<122888, 122904>>, <<122907, 122913>>, <<122915, 122916>>, <<122918, 122922>>,
      <<123184, 123197>>, <<123566, 123566>>, <<123628, 123631>>, <<125136, 125142>>,
      <<125252, 125259>>, <<127995, 127999>>, <<917505, 917505>>, <<917536, 917631>>,
      <<917760, 917999>> }

\* the cased characters that are not case-ignorable, from r[1] to r[2]
CasedRanges ==
    { <<65, 90>>, <<97, 122>>, <<170, 170>>, <<181, 181>>, <<186, 186>>, <<192, 214>>,
      <<216, 246>>, <<248, 442>>, <<444, 447>>, <<452, 659>>, <<661, 687>>, <<880, 883>>,
      <<886, 887>>, <<891, 893>>, <<895, 895>>, <<902, 902>>, <<904, 906>>, <<908, 908>>,
      <<910, 929>>, <<931, 1013>>, <<1015, 1153>>, <<1162, 1327>>, <<1329, 1366>>,
      <<1376, 1416>>, <<4256, 4293>>, <<4295, 4295>>, <<4301, 4301>>, <<4304, 4346>>,
      <<4349, 4351>>, <<5024, 5109>>, <<5112, 5117>>, <<7296, 7304>>, <<7312, 7354>>,
      <<7357, 7359>>, <<7424, 7467>>, <<7531, 7543>>, <<7545, 7578>>, <<7680, 7957>>,
      <<7960, 7965>>, <<7968, 8005>>, <<8008, 8013>>, <<8016, 8023>>, <<8025, 8025>>,
      <<8027, 8027>>, <<8029, 8029>>, <<8031, 8061>>, <<8064, 8116>>, <<8118, 8124>>,
      <<8126, 8126>>, <<8130, 8132>>, <<8134, 8140>>, <<8144, 8147>>, <<8150, 8155>>,
      <<8160, 8172>>, <<8178, 8180>>, <<8182, 8188>>, <<8450, 8450>>, <<8455, 8455>>,
      <<8458, 8467>>, <<8469, 8469>>, <<8473, 8477>>, <<8484, 8484>>, <<8486, 8486>>,
      <<8488, 8488>>, <<8490, 8493>>, <<8495, 8500>>, <<8505, 8505>>, <<8508, 8511>>,
      <<8517, 8521>>, <<8526, 8526>>, <<8544, 8575>>, <<8579, 8580>>, <<9398, 9449>>,
      <<11264, 11387>>, <<11390, 11492>>, <<11499, 11502>>, <<11506, 11507>>, <<11520, 11557>>,
      <<11559, 11559>>, <<11565, 11565>>, <<42560, 42605>>, <<42624, 42651>>, <<42786, 42863>>,
      <<42865, 42887>>, <<42891, 42894>>, <<42896, 42954>>, <<42960, 42961>>, <<42963, 42963>>,
      <<42965, 42969>>, <<42997, 42998>>, <<43002, 43002>>, <<43824, 43866>>, <<43872, 43880>>,
      <<43888, 43967>>, <<64256, 64262>>, <<64275, 64279>>, <<65313, 65338>>, <<65345, 65370>>,
      <<66560, 66639>>, <<66736, 66771>>, <<66776, 66811>>, <<66928, 66938>>, <<66940, 66954>>,
      <<66956, 66962>>, <<66964, 66965>>, <<66967, 66977>>, <<66979, 66993>>, <<66995, 67001>>,
      <<67003, 67004>>, <<68736, 68786>>, <<68800, 68850>>, <<71840, 71903>>, <<93760, 93823>>,
      <<119808, 119892>>, <<119894, 119964>>, <<119966, 119967>>, <<119970, 119970>>,
      <<119973, 119974>>, <<119977, 119980>>, <<119982, 119993>>, <<119995, 119995>>,
      <<119997, 120003>>, <<120005, 120069>>, <<120071, 120074>>, <<120077, 120084>>,
      <<120086, 120092>>, <<120094, 120121>>, <<120123, 120126>>, <<120128, 120132>>,
      <<120134, 120134>>, <<120138, 120144>>, <<120146, 120485>>, <<120488, 120512>>,
      <<120514, 120538>>, <<120540, 120570>>, <<120572, 120596>>, <<120598, 120628>>,
      <<120630, 120654>>, <<120656, 120686>>, <<120688, 120712>>, <<120714, 120744>>,
      <<120746, 120770>>, <<120772, 120779>>, <<122624, 122633>>, <<122635, 122654>>,
      <<125184, 125251>>, <<127280, 127305>>, <<127312, 127337>>, <<127344, 127369>> }

CaseIgnorable(c) == \E r \in IgnorableRanges : r[1] <= c /\ c <= r[2]

Cased(c) == \E r \in CasedRanges : r[1] <= c /\ c <= r[2]

\* the capital sigma at the place k ends a word: a cased character stands
\* before it and none after it, case-ignorable characters skipped
FinalSigma(s, k) ==
    /\ \E j \in 1..(k - 1) :
          Cased(s[j]) /\ \A l \in (j + 1)..(k - 1) : CaseIgnorable(s[l])
    /\ ~\E j \in (k + 1)..Len(s) :
          Cased(s[j]) /\ \A l \in (k + 1)..(j - 1) : CaseIgnorable(s[l])

\* what str.lower() writes for the character at the place k: the capital
\* sigma (U+03A3) gives the final or the small sigma, the capital I with dot
\* (U+0130) gives i and the combining dot
LowerAt(s, k) ==
    IF s[k] = 931 THEN <<IF FinalSigma(s, k) THEN 962 ELSE 963>>
    ELSE IF s[k] = 304 THEN <<105, 775>>
    ELSE <<LowerChar(s[k])>>

\* the sequences of ss one after the other
RECURSIVE Concat(_)
Concat(ss) ==
    IF ss = <<>> THEN <<>>
    ELSE IF Len(ss) = 1 THEN ss[1]
    ELSE Concat(SubSeq(ss, 1, Len(ss) \div 2)) \o Concat(SubSeq(ss, Len(ss) \div 2 + 1, Len(ss)))

\* str.lower()
LowerString(chars) == Concat([k \in 1..Len(chars) |-> LowerAt(chars, k)])

\* s without the characters of W at its left end
StripLeftOf(s, W) == SubSeq(s, Least({k \in 1..Len(s) : s[k] \notin W} \cup {Len(s) + 1}), Len(s))

\* s without the characters of W at its right end
StripRightOf(s, W) == SubSeq(s, 1, Greatest({k \in 1..Len(s) : s[k] \notin W} \cup {0}))

\* the whitespace float() skips at the left end of the string
StripLeft(s) == StripLeftOf(s, FloatSpace)

\* the whitespace float() skips at the right end of the string
StripRight(s) == StripRightOf(s, FloatSpace)

\* str.strip()
StripString(chars) == StripRightOf(StripLeftOf(chars, StripSpace), StripSpace)

\* the hexadecimal digit of c at the place k, the lowest being the place 0
HexDigit(c, k) ==
    <<"0", "1", "2", "3", "4", "5", "6", "7", "8", "9", "a", "b", "c", "d", "e", "f">>[((c \div 16^k) % 16) + 1]

\* a character as the state holds it: itself when it is printable ASCII
\* other than the backslash and the grave accent, else a backslash and its
\* code point in six hexadecimal digits; no two strings are held as the
\* same text
CharText(c) ==
    IF 32 <= c /\ c <= 126 /\ c # 92 THEN Printable[c - 31]
    ELSE "\\" \o HexDigit(c, 5) \o HexDigit(c, 4) \o HexDigit(c, 3)
              \o HexDigit(c, 2) \o HexDigit(c, 1) \o HexDigit(c, 0)

\* the string made of a sequence of characters, as the state holds it
RECURSIVE Text(_)
Text(chars) ==
    IF chars = <<>> THEN ""
    ELSE IF Len(chars) = 1 THEN CharText(chars[1])
    ELSE Text(SubSeq(chars, 1, Len(chars) \div 2))
           \o Text(SubSeq(chars, Len(chars) \div 2 + 1, Len(chars)))

\* value of a sequence of decimal digits, read left to right
RECURSIVE DigitsValue(_)
DigitsValue(s) ==
    IF s = <<>> THEN 0 ELSE 10 * DigitsValue(SubSeq(s, 1, Len(s) - 1)) + DigitVal(s[Len(s)])

\* the places of s that do not hold c
Places(s, c) == {k \in 1..Len(s) : s[k] # c}

\* s without its characters c
Without(s, c) ==
    [j \in 1..Cardinality(Places(s, c)) |->
        s[CHOOSE k \in Places(s, c) : Cardinality({x \in Places(s, c) : x <= k}) = j]]

PointCount(s) == Cardinality({k \in 1..Len(s) : s[k] = Ord(".")})

\* number of digits after the decimal point (0 when there is no point)
FractionDigits(s) ==
    IF PointCount(s) = 0 THEN 0
    ELSE Len(s) - (CHOOSE k \in 1..Len(s) : s[k] = Ord("."))

\* s without the digits 0 at its left end
StripZeros(s) == StripLeftOf(s, DigitZeros)

\* ---- natural numbers of any size (Python int, and the exact values behind
\* a float): the sequence of the digits in base 2^15, least significant
\* first, the last one not 0; <<>> is 0.
Radix == 2^15

Limb(a, k) == IF 1 <= k /\ k <= Len(a) THEN a[k] ELSE 0

\* a without the digits 0 at its end
NatTrim(a) == SubSeq(a, 1, Greatest({0} \cup {k \in 1..Len(a) : a[k] # 0}))

\* for 0 <= n < 2^31
NatOfInt(n) == NatTrim(<<n % Radix, (n \div Radix) % Radix, n \div (Radix * Radix)>>)

\* the number a as an integer of TLC, whose integers end at 2^31 - 1: a
\* larger number is an overflow error of TLC
RECURSIVE IntOfNat(_)
IntOfNat(a) ==
    IF a = <<>> THEN 0
    ELSE a[Len(a)] * Radix^(Len(a) - 1) + IntOfNat(SubSeq(a, 1, Len(a) - 1))

\* the carry into the digit k of a + b
Carry(a, b, k) ==
    IF \E j \in 1..(k - 1) :
          /\ Limb(a, j) + Limb(b, j) >= Radix
          /\ \A l \in (j + 1)..(k - 1) : Limb(a, l) + Limb(b, l) = Radix - 1
    THEN 1 ELSE 0

NatAdd(a, b) ==
    IF a = <<>> THEN b
    ELSE IF b = <<>> THEN a
    ELSE NatTrim([k \in 1..(Max(Len(a), Len(b)) + 1) |->
                    (Limb(a, k) + Limb(b, k) + Carry(a, b, k)) % Radix])

\* the borrow from the digit k of a - b
Borrow(a, b, k) ==
    IF \E j \in 1..(k - 1) :
          /\ Limb(a, j) < Limb(b, j)
          /\ \A l \in (j + 1)..(k - 1) : Limb(a, l) = Limb(b, l)
    THEN 1 ELSE 0

\* a - b for a >= b
NatSub(a, b) ==
    IF b = <<>> THEN a
    ELSE NatTrim([k \in 1..Len(a) |->
                    (Limb(a, k) - Limb(b, k) - Borrow(a, b, k)) % Radix])

NatLess(a, b) ==
    IF Len(a) # Len(b) THEN Len(a) < Len(b)
    ELSE \E k \in 1..Len(a) :
            /\ a[k] < b[k]
            /\ \A j \in (k + 1)..Len(a) : a[j] = b[j]

\* the number whose digit k is c[k], each c[k] under 2^30
NatOfWide(c) ==
    NatAdd(NatTrim([k \in 1..Len(c) |-> c[k] % Radix]),
           NatTrim(<<0>> \o [k \in 1..Len(c) |-> c[k] \div Radix]))

\* a * c for 0 <= c <= Radix
NatTimes(a, c) == IF a = <<>> THEN <<>> ELSE NatOfWide([k \in 1..Len(a) |-> a[k] * c])

\* a * 2^s
NatShl(a, s) ==
    IF a = <<>> THEN <<>> ELSE [j \in 1..(s \div 15) |-> 0] \o NatTimes(a, 2^(s % 15))

\* a // 2^s
NatShr(a, s) ==
    NatTrim([k \in 1..(Len(a) - (s \div 15)) |->
                (Limb(a, k + (s \div 15)) \div 2^(s % 15))
                  + (Limb(a, k + (s \div 15) + 1) % 2^(s % 15)) * 2^(15 - (s % 15))])

\* the number of bits of a digit
BitLen(x) == CHOOSE n \in 0..15 : x < 2^n /\ (n = 0 \/ x >= 2^(n - 1))

\* the number of bits of a
NatBits(a) == IF a = <<>> THEN 0 ELSE 15 * (Len(a) - 1) + BitLen(a[Len(a)])

\* the bit k of a, the lowest being bit 1
NatBit(a, k) == (Limb(a, (k - 1) \div 15 + 1) \div 2^((k - 1) % 15)) % 2

\* the sum of the values of f, which are natural numbers: the size of the
\* bag that holds f[x] copies of x
Sum(f) == BagCardinality([x \in {y \in DOMAIN f : f[y] > 0} |-> f[x]])

\* the products of a digit of a and a digit of b that stand at the place k
Products(a, b, k) ==
    [x \in {y \in 1..Len(a) : 1 <= k + 1 - y /\ k + 1 - y <= Len(b)} |-> a[x] * b[k + 1 - x]]

NatMul(a, b) ==
    IF a = <<>> \/ b = <<>> THEN <<>>
    ELSE NatAdd(NatOfWide([k \in 1..(Len(a) + Len(b) - 1) |->
                              Sum([x \in DOMAIN Products(a, b, k) |-> Products(a, b, k)[x] % Radix])]),
                NatOfWide(<<0>> \o [k \in 1..(Len(a) + Len(b) - 1) |->
                              Sum([x \in DOMAIN Products(a, b, k) |-> Products(a, b, k)[x] \div Radix])]))

RECURSIVE NatPow10(_)
NatPow10(k) ==
    IF k <= 9 THEN NatOfInt(10^k)
    ELSE NatMul(NatPow10(k \div 2), NatPow10(k - k \div 2))

\* the value of a sequence of decimal digits
RECURSIVE NatOfDigits(_)
NatOfDigits(s) ==
    IF Len(s) <= 4 THEN NatOfInt(DigitsValue(s))
    ELSE NatAdd(NatMul(NatOfDigits(SubSeq(s, 1, Len(s) - (Len(s) \div 2))),
                       NatPow10(Len(s) \div 2)),
                NatOfDigits(SubSeq(s, Len(s) - (Len(s) \div 2) + 1, Len(s))))

\* a digit of a quotient is the d with d * b <= r < (d + 1) * b, for
\* r < b * Radix; when the highest bit of the last digit of b is set, the
\* estimate from the leading digits is at most 2 too large
DigitEstimate(r, b) ==
    Min((Limb(r, Len(b) + 1) * Radix + Limb(r, Len(b))) \div b[Len(b)], Radix - 1)

QuotientDigit(r, b) ==
    CHOOSE d \in (DigitEstimate(r, b) - 2)..DigitEstimate(r, b) :
        d >= 0 /\ ~NatLess(r, NatTimes(b, d)) /\ NatLess(r, NatTimes(b, d + 1))

\* long division by b: the digits found so far (the highest first) with the
\* digit d of the quotient of the remainder r
DivideBy(b, digits, r, d) == [digits |-> digits \o <<d>>, rem |-> NatSub(r, NatTimes(b, d))]

DivideRemainder(b, digits, r) == DivideBy(b, digits, r, QuotientDigit(r, b))

\* the step that brings down the next digit of the dividend
DivideDigit(b, above, digit) ==
    DivideRemainder(b, above.digits, NatTrim(<<digit>> \o above.rem))

\* the long division of a by b, from the digit 4 down to the digit t of the
\* quotient: its digits, the highest first, and the remainder
RECURSIVE NatDivStep(_, _, _)
NatDivStep(a, b, t) ==
    IF t > 4 THEN [digits |-> <<>>, rem |-> SubSeq(a, Min(5, Len(a) + 1), Len(a))]
    ELSE DivideDigit(b, NatDivStep(a, b, t + 1), Limb(a, t))

\* the shift that sets the highest bit of the last digit of b
DivisorShift(b) == 15 - BitLen(b[Len(b)])

DivResult(d, b) ==
    [quo |-> NatTrim([k \in 1..4 |-> d.digits[5 - k]]), rem |-> d.rem, den |-> b]

\* a // b, and a % b as rem / den, when the highest bit of the last digit of
\* b is set
NatDivNormal(a, b) ==
    IF NatLess(a, b) THEN [quo |-> <<>>, rem |-> a, den |-> b]
    ELSE DivResult(NatDivStep(a, b, 1), b)

\* a // b, and the fraction (a % b) / b as rem / den, for b > 0 and
\* a // b < Radix^4
NatDivMod(a, b) == NatDivNormal(NatShl(a, DivisorShift(b)), NatShl(b, DivisorShift(b)))

\* q, plus 1 when the part cut off is over a half (half and rest), or is a
\* half and q is odd
RoundHalfEven(q, half, rest) ==
    IF half /\ (rest \/ NatBit(q, 1) = 1) THEN NatAdd(q, <<1>>) ELSE q

\* a // 2^s for s >= 1, rounded to the nearest, ties to even
RoundShift(a, s) ==
    RoundHalfEven(NatShr(a, s), NatBit(a, s) = 1,
                  s > 1 /\ NatShl(NatShr(a, s - 1), s - 1) # a)

\* ---- Python float (IEEE 754 binary64): cls is "finite", "inf" or "nan"; a
\* finite value is (-1)^neg * mant * 2^exp, mant of 53 bits, or of fewer
\* bits with exp = -1074 (subnormal), or 0 (zero).
Infinity(neg) == [cls |-> "inf", neg |-> neg, mant |-> <<>>, exp |-> 0]

NaN == [cls |-> "nan", neg |-> FALSE, mant |-> <<>>, exp |-> 0]

Zero(neg) == [cls |-> "finite", neg |-> neg, mant |-> <<>>, exp |-> 0]

\* the float m * 2^e for m in its place; inf from 2^1024 on
Finite(neg, m, e) ==
    IF m = <<>> THEN Zero(neg)
    ELSE IF NatBits(m) + e > 1024 THEN Infinity(neg)
    ELSE [cls |-> "finite", neg |-> neg, mant |-> m, exp |-> e]

\* the shift to the left that gives m its 53 bits, as far as the exponent e
\* allows
MantissaShift(m, e) ==
    IF NatBits(m) > 53 THEN 53 - NatBits(m) ELSE Min(53 - NatBits(m), e + 1074)

FloatShifted(neg, m, e, s) ==
    Finite(neg, IF s >= 0 THEN NatShl(m, s) ELSE NatShr(m, -s), e - s)

\* the float that is m * 2^e, for m of at most 53 bits or m = 2^53, and
\* e >= -1074
FloatOf(neg, m, e) == FloatShifted(neg, m, e, MantissaShift(m, e))

\* the float nearest to (d.quo + d.rem / d.den) * 2^e (ties to even), d.quo
\* of at most 54 bits
RoundQuotient(neg, d, e) ==
    IF NatBits(d.quo) <= 53
    THEN FloatOf(neg, RoundHalfEven(d.quo, ~NatLess(NatTimes(d.rem, 2), d.den),
                                    NatTimes(d.rem, 2) # d.den), e)
    ELSE FloatOf(neg, RoundHalfEven(NatShr(d.quo, 1), NatBit(d.quo, 1) = 1, d.rem # <<>>),
                 e + 1)

\* the exponent k at which n * 2^k // m has 53 or 54 bits, at most 1074
RatioShift(n, m) == Min(53 - (NatBits(n) - NatBits(m)), 1074)

RoundRatioAt(neg, n, m, k) ==
    RoundQuotient(neg, NatDivMod(NatShl(n, Max(k, 0)), NatShl(m, Max(-k, 0))), -k)

\* the float nearest to n / m, m > 0; n / m >= 2^1024 is inf
RoundRatio(neg, n, m) ==
    IF n = <<>> THEN Zero(neg)
    ELSE IF RatioShift(n, m) <= -972 THEN Infinity(neg)
    ELSE RoundRatioAt(neg, n, m, RatioShift(n, m))

\* the float of the decimal digits sig * 10^e10, sig without leading zeros
FloatOfSignificant(neg, sig, e10) ==
    IF sig = <<>> THEN Zero(neg)
    ELSE IF Len(sig) - 1 + e10 >= 309 THEN Infinity(neg)
    ELSE IF Len(sig) + e10 <= -324 THEN Zero(neg)
    ELSE RoundRatio(neg, NatMul(NatOfDigits(sig), NatPow10(Max(e10, 0))),
                    NatPow10(Max(-e10, 0)))

\* the float of the decimal digits * 10^e10
FloatOfDecimal(neg, digits, e10) == FloatOfSignificant(neg, StripZeros(digits), e10)

\* float(n / d) for a JSON number n / d, d > 0
FloatOfRatio(n, d) ==
    IF n = 0 THEN Zero(FALSE)
    ELSE RoundRatio(n < 0, NatOfInt(IF n < 0 THEN -n ELSE n), NatOfInt(d))

\* float(str): surrounding whitespace, an optional sign, then inf, infinity
\* or nan in any case, or digits with at most one point, at least one digit
\* and an optional exponent; an underscore may stand between two digits.
\* Anything else raises ValueError (ok = FALSE).
Negative(s) == s # <<>> /\ Head(s) = Ord("-")

\* s without its sign
Unsigned(s) == IF s # <<>> /\ Head(s) \in {Ord("-"), Ord("+")} THEN Tail(s) ELSE s

\* every underscore of s stands between two digits
Grouped(s) ==
    \A k \in 1..Len(s) :
        s[k] = Ord("_") => (1 < k /\ k < Len(s) /\ IsDigit(s[k - 1]) /\ IsDigit(s[k + 1]))

\* the place of the first e or E of s, Len(s) + 1 when there is none
ExponentAt(s) == Least({k \in 1..Len(s) : s[k] \in {Ord("e"), Ord("E")}} \cup {Len(s) + 1})

AllDigits(s) == \A k \in 1..Len(s) : IsDigit(s[k])

IsMantissa(s) == PointCount(s) <= 1 /\ Without(s, Ord(".")) # <<>> /\ AllDigits(Without(s, Ord(".")))

IsExponent(s) == Unsigned(s) # <<>> /\ AllDigits(Unsigned(s))

\* the value of the digits of an exponent; float() takes an exponent of more
\* than nine digits (leading zeros aside) for 1100000000
ExponentValue(s) ==
    IF Len(StripZeros(s)) > 9 THEN 1100000000 ELSE DigitsValue(StripZeros(s))

\* the value of an exponent with its sign, 0 when there is no exponent
ExponentOf(s) ==
    IF Negative(s) THEN -ExponentValue(Unsigned(s)) ELSE ExponentValue(Unsigned(s))

NotAFloat == [ok |-> FALSE, value |-> NaN]

AFloat(f) == [ok |-> TRUE, value |-> f]

\* the mantissa m and, after an e (hasexp), the exponent e
ParseParts(neg, m, hasexp, e) ==
    IF IsMantissa(m) /\ (hasexp => IsExponent(e))
    THEN AFloat(FloatOfDecimal(neg, Without(m, Ord(".")), ExponentOf(e) - FractionDigits(m)))
    ELSE NotAFloat

ParseNumber(neg, t) ==
    ParseParts(neg, SubSeq(t, 1, ExponentAt(t) - 1), ExponentAt(t) <= Len(t),
               SubSeq(t, ExponentAt(t) + 1, Len(t)))

\* the letters of ASCII in lower case
AsciiLower(s) == [k \in 1..Len(s) |-> IF 65 <= s[k] /\ s[k] <= 90 THEN s[k] + 32 ELSE s[k]]

ParseUnsigned(neg, body) ==
    IF AsciiLower(body) \in {Codes(<<"i", "n", "f">>), Codes(<<"i", "n", "f", "i", "n", "i", "t", "y">>)}
    THEN AFloat(Infinity(neg))
    ELSE IF AsciiLower(body) = Codes(<<"n", "a", "n">>) THEN AFloat(NaN)
    ELSE IF Grouped(body) THEN ParseNumber(neg, Without(body, Ord("_")))
    ELSE NotAFloat

ParseStripped(s) == ParseUnsigned(Negative(s), Unsigned(s))

ParseFloat(chars) == ParseStripped(StripRight(StripLeft(chars)))

\* the default of 2.0 hours: 2^52 * 2^-51
DefaultHours == [cls |-> "finite", neg |-> FALSE, mant |-> <<0, 0, 0, 128>>, exp |-> -51]

\* Python truthiness of a daily_hours value
Truthy(v) ==
    CASE v.type = "none" -> FALSE
      [] v.type = "num" -> v.num # 0
      [] v.type = "str" -> v.chars # <<>>

\* except: hours = 2.0
ValueOrDefault(p) == IF p.ok THEN p.value ELSE DefaultHours

\* hours = float(daily_hours) if daily_hours else 2.0, except: hours = 2.0
ParseHours(v) ==
    IF ~Truthy(v) THEN DefaultHours
    ELSE IF v.type = "num" THEN FloatOfRatio(v.num, v.den)
    ELSE ValueOrDefault(ParseFloat(v.chars))

\* the float p * 2^e rounded to 53 bits, s bits cut off
FloatRounded(neg, p, e, s) == FloatOf(neg, IF s = 0 THEN p ELSE RoundShift(p, s), e + s)

FloatOfProduct(neg, p, e) == FloatRounded(neg, p, e, Max(0, NatBits(p) - 53))

\* hours * 60: the exact product rounded to 53 bits
FloatTimes60(f) ==
    IF f.cls # "finite" THEN f ELSE FloatOfProduct(f.neg, NatTimes(f.mant, 60), f.exp)

\* the magnitude of int(f), f finite: truncation toward zero
IntegerPart(f) == IF f.exp >= 0 THEN NatShl(f.mant, f.exp) ELSE NatShr(f.mant, -f.exp)

\* the exception int(f) raises, "" when it raises none
IntError(f) ==
    CASE f.cls = "inf" -> "OverflowError"
      [] f.cls = "nan" -> "ValueError"
      [] OTHER -> ""

\* int(f)
IntOf(f) == IF f.neg THEN -IntOfNat(IntegerPart(f)) ELSE IntOfNat(IntegerPart(f))

\* the exception int(hours * 60) raises, "" when it raises none
QuotaError(hours) == IntError(FloatTimes60(hours))

\* daily_quota = int(hours * 60)
DailyQuota(hours) == IntOf(FloatTimes60(hours))

\* base_minutes = max(20, daily_quota // len(topics))
BaseMinutes(quota, n) == Max(20, quota \div n)

\* every level that is not easy taken for hard
SuggestedHardDefault(base, lvl) ==
    LET s == IF lvl = "easy" THEN base - 5 ELSE base + 10
    IN Max(15, s)

\* lines 643-649: suggested minutes of a topic of the given level
Suggested(base, lvl) ==
    LET s == IF lvl = "easy" THEN base - 5
             ELSE IF lvl = "hard" THEN base + 10
             ELSE base
    IN Max(15, s)

\* the rollover test with > for >=
DayIsFullStrict(used, quota) == used > quota

\* line 653: the rollover test at the head of the while body
DayIsFull(used, quota) == used >= quota

\* lines 653-654: the day after the rollover test
RolloverDay(d, used, quota) == IF DayIsFull(used, quota) THEN d + 1 ELSE d

\* the rollover forgetting to reset used_today
RolloverUsedNoReset(used, quota) == used

\* lines 653-655: used_today after the rollover test
RolloverUsed(used, quota) == IF DayIsFull(used, quota) THEN 0 ELSE used

\* the chunk capped by the whole quota instead of what is left of the day
ChunkSizeWholeQuota(rem, quota, used) == Min(rem, quota)

\* chunk = min(remaining, daily_quota - used_today)
ChunkSize(rem, quota, used) == Min(rem, quota - used)

\* Optional integer: None is <<>>, a value x is <<x>>
None == <<>>

Some(x) == <<x>>

\* the break thresholds with > for >=
BreakAfterStrict(chunk) ==
    IF chunk > 60 THEN Some(10) ELSE IF chunk > 30 THEN Some(5) ELSE None

\* break_after = 10 if chunk >= 60 else 5 if chunk >= 30 else None
BreakAfter(chunk) ==
    IF chunk >= 60 THEN Some(10) ELSE IF chunk >= 30 THEN Some(5) ELSE None

\* lines 675-681 (the hint texts without their emoji)
pick_hint(lvl) ==
    CASE lvl = "easy" -> "Quick win - Build confidence with this topic"
      [] lvl = "medium" -> "Steady pace - Focus on core concepts"
      [] lvl = "hard" -> "Deep focus - Break into smaller parts"
      [] OTHER -> "Stay focused!"

\* decimal digits of a natural number, as str(n) writes them
RECURSIVE Decimal(_)
Decimal(n) == IF n < 10 THEN <<Ord("0") + n>> ELSE Decimal(n \div 10) \o <<Ord("0") + (n % 10)>>

\* f"Day {day}"
DayLabel(d) == Codes(<<"D", "a", "y", " ">>) \o Decimal(d)

\* the number written in a day label
DayNumber(label) == DigitsValue(SubSeq(label, 5, Len(label)))

\* the day counter starting at 0
FirstDayZero == 1 - 1

\* line 636: day = 1
FirstDay == 1

\* courses[i] if i < len(courses) else "General"   (k is the 1-based index)
CourseAt(cs, k) == IF k <= Len(cs) THEN cs[k] ELSE "General"

\* difficulties[i] if i < len(difficulties) else "medium"
LevelAt(ds, k) == IF k <= Len(ds) THEN ds[k] ELSE "medium"

\* ------------------------------------------------------------------ inputs
NoneValue == [type |-> "none", num |-> 0, den |-> 1, chars |-> <<>>]

Num(n, d) == [type |-> "num", num |-> n, den |-> d, chars |-> <<>>]

Str(s) == [type |-> "str", num |-> 0, den |-> 1, chars |-> s]

DailyHoursValues ==
    { NoneValue, Num(0, 1), Num(1, 1), Num(2, 1), Num(-1, 1), Num(3, 4), Num(41, 20),
      Str(<<>>), Str(Codes(<<"0">>)), Str(Codes(<<"-", "1">>)), Str(Codes(<<"0", ".", "0", "1">>)),
      Str(Codes(<<"a", "b", "c">>)), Str(Codes(<<"1">>)), Str(Codes(<<"2">>)), Str(Codes(<<"3">>)),
      Str(Codes(<<"0", ".", "7", "5">>)), Str(Codes(<<"1", ".", "5">>)), Str(Codes(<<".", "5">>)),
      Str(Codes(<<" ", "1", ".">>)), Str(Codes(<<"0", ".", "2", "5">>)), Str(Codes(<<"1", "-">>)),
      Str(Codes(<<"2", ".", "0", "5">>)), Str(<<9>> \o Codes(<<"1">>) \o <<10>>), Str(Codes(<<"5", "e", "-", "1">>)),
      Str(Codes(<<"0", "_", "1">>)), Str(Codes(<<"1", "_">>)), Str(Codes(<<"I", "n", "f">>)),
      Str(Codes(<<"-", "n", "a", "n">>)), Str(Codes(<<"1", "e", "4", "0", "0">>)),
      Str(<<1635>>), Str(<<8195, 49, 12288>>), Str(<<65297, 46, 2411>>) }

Levels == {"easy", "medium", "hard", "expert"}

TopicNames == <<"Algebra", "Motion", "Energy", "Optics", "Waves", "Atoms">>

CourseNames == <<"Math", "Phys", "Phys", "Phys", "Phys", "Chem">>

\* ------------------------------------------------------------------- state
VARIABLES
    courses, topics, difficulties, daily_hours,   \* arguments
    pc,                                           \* position in the function
    daily_quota, base_minutes, plan, day, used_today,
    i,                                            \* number of topics started
    course, level, suggested, remaining,
    ret,                                          \* returned value
    users_store,                                  \* email -> user dict
    user_by_id,                                   \* user_id -> user dict
    plans_store,                                  \* user_id -> list of plans
    user_data,                                    \* the user dicts
    plan_lists,                                   \* the lists of plans
    plan_doc,                                     \* the plan documents
    threads,                                      \* the requests being served
    caller,                                       \* the thread of the frame
    requests,                                     \* number of requests taken
    stdout_errors                                 \* error handler of sys.stdout

args == <<courses, topics, difficulties, daily_hours>>

locals == <<daily_quota, base_minutes, plan, day, used_today, i,
            course, level, suggested, remaining>>

\* lines 44-46: the in-memory stores with the dicts and lists they refer to,
\* the requests being served, and the standard output the handlers print to
api == <<users_store, user_by_id, plans_store, user_data, plan_lists, plan_doc,
         threads, caller, requests, stdout_errors>>

vars == <<args, pc, locals, ret, api>>

\* the response of a handler: the status code, the error message of an error
\* response and the plan_id of a success response that carries one
Response(code, msg, pid) == [status |-> code, error |-> msg, plan_id |-> pid]

\* a thread that serves no request
NoRequest ==
    [op |-> "", at |-> "idle", user |-> "", body |-> <<>>, locals |-> <<>>,
     frame |-> <<>>, resp |-> Response(0, "", "")]

\* lines 44-46: the stores are empty when the module is loaded
StoresInit ==
    /\ users_store = <<>>
    /\ user_by_id = <<>>
    /\ plans_store = <<>>
    /\ user_data = <<>>
    /\ plan_lists = <<>>
    /\ plan_doc = <<>>
    /\ threads = [t \in 1..MaxThreads |-> NoRequest]
    /\ caller = 0
    /\ requests = 0

Init ==
    /\ \E n \in 0..MaxTopics :
         /\ topics = SubSeq(TopicNames, 1, n)
         /\ \E m \in {k \in {n - 1, n} : k >= 0} : courses = SubSeq(CourseNames, 1, m)
         /\ \E m \in {k \in {n - 1, n} : k >= 0} : difficulties \in [1..m -> Levels]
    /\ daily_hours \in DailyHoursValues
    /\ pc = "start"
    /\ daily_quota = 0
    /\ base_minutes = 0
    /\ plan = <<>>
    /\ day = 0
    /\ used_today = 0
    /\ i = 0
    /\ course = ""
    /\ level = ""
    /\ suggested = 0
    /\ remaining = 0
    /\ ret = <<>>
    /\ StoresInit
    /\ stdout_errors = "strict"    \* generate_simple_plan prints nothing

\* line 630: int() of an infinite or NaN product raises out of the function
Raise ==
    /\ pc = "start"
    /\ QuotaError(ParseHours(daily_hours)) # ""
    /\ pc' = "raised"
    /\ UNCHANGED <<api, args, locals, ret>>

\* lines 625-637: parse the hours, compute the quota, return [] for no topics
Begin ==
    /\ pc = "start"
    /\ \E minutes \in {FloatTimes60(ParseHours(daily_hours))} :
          /\ IntError(minutes) = ""
          /\ NatLess(IntegerPart(minutes), NatOfInt(MaxQuota + 1))
          /\ daily_quota' = IntOf(minutes)
    /\ IF topics = <<>>
       THEN /\ ret' = <<>>
            /\ pc' = "done"
            /\ UNCHANGED <<base_minutes, plan, day, used_today>>
       ELSE /\ base_minutes' = BaseMinutes(daily_quota', Len(topics))
            /\ plan' = <<>>
            /\ day' = FirstDay
            /\ used_today' = 0
            /\ pc' = "for"
            /\ ret' = ret
    /\ UNCHANGED <<api, args, i, course, level, suggested, remaining>>

\* lines 639-650: head of the for loop, the next topic's suggested minutes
ForTopic ==
    /\ pc = "for"
    /\ i < Len(topics)
    /\ i' = i + 1
    /\ course' = CourseAt(courses, i + 1)
    /\ level' = LevelAt(difficulties, i + 1)
    /\ suggested' = Suggested(base_minutes, level')
    /\ remaining' = suggested'
    /\ pc' = IF remaining' > 0 THEN "while" ELSE "for"
    /\ UNCHANGED <<api, args, daily_quota, base_minutes, plan, day, used_today, ret>>

\* the while body leaving the loop after its first chunk
CarveBreak ==
    /\ pc = "while"
    /\ Len(plan) < MaxPlanLen
    /\ LET d == RolloverDay(day, used_today, daily_quota)
           u == RolloverUsed(used_today, daily_quota)
           chunk == ChunkSize(remaining, daily_quota, u)
       IN /\ day' = d
          /\ remaining' = remaining - chunk
          /\ used_today' = u + chunk
          /\ plan' = Append(plan, [day |-> DayLabel(d),
                                   course |-> course,
                                   topic |-> topics[i],
                                   difficulty |-> level,
                                   suggested_minutes |-> chunk,
                                   ai_hint |-> pick_hint(level),
                                   break_after |-> BreakAfter(chunk)])
          /\ pc' = "for"
    /\ UNCHANGED <<api, args, daily_quota, base_minutes, i, course, level, suggested, ret>>

\* lines 652-671: one iteration of the while loop
Carve ==
    /\ pc = "while"
    /\ Len(plan) < MaxPlanLen
    /\ LET d == RolloverDay(day, used_today, daily_quota)
           u == RolloverUsed(used_today, daily_quota)
           chunk == ChunkSize(remaining, daily_quota, u)
       IN /\ day' = d
          /\ remaining' = remaining - chunk
          /\ used_today' = u + chunk
          /\ plan' = Append(plan, [day |-> DayLabel(d),
                                   course |-> course,
                                   topic |-> topics[i],
                                   difficulty |-> level,
                                   suggested_minutes |-> chunk,
                                   ai_hint |-> pick_hint(level),
                                   break_after |-> BreakAfter(chunk)])
          /\ pc' = IF remaining' > 0 THEN "while" ELSE "for"
    /\ UNCHANGED <<api, args, daily_quota, base_minutes, i, course, level, suggested, ret>>

\* a return statement indented into the body of the for loop
ReturnInsideLoop ==
    /\ pc = "for"
    /\ i >= 1
    /\ ret' = plan
    /\ pc' = "done"
    /\ UNCHANGED <<api, args, locals>>

\* line 673: return plan
Return ==
    /\ pc = "for"
    /\ i >= Len(topics)
    /\ ret' = plan
    /\ pc' = "done"
    /\ UNCHANGED <<api, args, locals>>

Next == Begin \/ Raise \/ ForTopic \/ Carve \/ Return

Spec == Init /\ [][Next]_vars

\* -------------------------------------------------------- the HTTP handlers
\* The server (app.run, line 725) serves every request on a thread of its
\* own, and the handlers take no lock: a handler is modelled as the sequence
\* of its reads and writes of the shared stores, one action each, and the
\* actions of different threads interleave freely.  What a handler computes
\* on its own between two such accesses belongs to the action of the access
\* that follows.
\*
\* The stores are the in-memory ones (no MongoDB: db is None).  They hold
\* references: the dict of a user is user_data[user_id], the document of a
\* plan is plan_doc[plan_id], and the list of a user's plans is
\* plan_lists[n], n being the value of plans_store[user_id].  Of a user the
\* model keeps the id, name, email, password and the three counters; of a plan
\* document the plan_id, user_id, daily_hours and the tasks.
\*
\* threads[t] is the request thread t serves: the handler (op), its position
\* (at), its local `user` ("" for None), the parts of the request body that
\* decide its branches (body), its other locals, and its response once it has
\* returned.  A request body is JSON null (kind "null"), the empty object
\* (kind "empty") or an object with keys (kind "object"); the strings a
\* handler converts are sequences of characters.
\*
\* The variables of generate_simple_plan are the frame of the call that is
\* running, which is that of the thread `caller` (0 for none); the frame of
\* any other thread inside the function is kept in threads[t].frame, and the
\* interpreter switches between them (Switch).

\* d[k] = v
Put(f, k, v) == [x \in (DOMAIN f) \cup {k} |-> IF x = k THEN v ELSE f[x]]

\* lines 102-120: the user of the Authorization header, "" for None.  The
\* header is the sequence of its blank-separated words, <<>> when missing.
get_user_from_token(header) ==
    IF header = <<>> \/ Len(header) < 2 \/ header[1] # "Bearer" THEN ""
    ELSE IF header[2] \in DOMAIN user_by_id THEN user_by_id[header[2]] ELSE ""

\* the thread at a position of its handler, with the locals it holds there
At(thread, position, held) == [thread EXCEPT !.at = position, !.locals = held]

\* the handler has returned a response
Answer(thread, response) ==
    [thread EXCEPT !.at = "respond", !.locals = <<>>, !.resp = response]

\* a request is given to the first thread that serves none
Free(t) ==
    /\ requests < MaxRequests
    /\ threads[t].at = "idle"
    /\ \A u \in 1..(t - 1) : threads[u].at # "idle"

\* the frame of a call of generate_simple_plan that has not taken a step
FreshFrame(cs, ts, ds, hours) ==
    [courses |-> cs, topics |-> ts, difficulties |-> ds, daily_hours |-> hours,
     pc |-> "start", daily_quota |-> 0, base_minutes |-> 0, plan |-> <<>>,
     day |-> 0, used_today |-> 0, i |-> 0, course |-> "", level |-> "",
     suggested |-> 0, remaining |-> 0, ret |-> <<>>]

\* the variables take the frame f
Load(f) ==
    /\ courses' = f.courses
    /\ topics' = f.topics
    /\ difficulties' = f.difficulties
    /\ daily_hours' = f.daily_hours
    /\ pc' = f.pc
    /\ daily_quota' = f.daily_quota
    /\ base_minutes' = f.base_minutes
    /\ plan' = f.plan
    /\ day' = f.day
    /\ used_today' = f.used_today
    /\ i' = f.i
    /\ course' = f.course
    /\ level' = f.level
    /\ suggested' = f.suggested
    /\ remaining' = f.remaining
    /\ ret' = f.ret

\* the interpreter gives the processor to a thread that is inside
\* generate_simple_plan; the frame of the thread that had it is kept
Switch ==
    \E t \in 1..MaxThreads :
      /\ threads[t].frame # <<>>
      /\ Load(threads[t].frame)
      /\ threads' = [u \in 1..MaxThreads |->
            IF u = t THEN [threads[u] EXCEPT !.frame = <<>>]
            ELSE IF u = caller
            THEN [threads[u] EXCEPT !.frame =
                    [courses |-> courses, topics |-> topics, difficulties |-> difficulties,
                     daily_hours |-> daily_hours, pc |-> pc, daily_quota |-> daily_quota,
                     base_minutes |-> base_minutes, plan |-> plan, day |-> day,
                     used_today |-> used_today, i |-> i, course |-> course,
                     level |-> level, suggested |-> suggested, remaining |-> remaining,
                     ret |-> ret]]
            ELSE threads[u]]
      /\ caller' = t
      /\ UNCHANGED <<users_store, user_by_id, plans_store, user_data,
                     plan_lists, plan_doc, requests, stdout_errors>>

\* ---- inputs of the handlers
Headers ==
    { <<>>, <<"Basic", "u1">>, <<"Bearer", "u1">>, <<"Bearer", "u2">> }

\* request bodies of register; an absent key is the empty string (U+00C5 and
\* U+00E5 are the capital and the small A with ring, U+2003 and U+3000
\* blanks, U+DC80 a surrogate, which JSON can carry alone)
RegisterBodies ==
    { [kind |-> "null", name |-> <<>>, email |-> <<>>, password |-> ""],
      [kind |-> "empty", name |-> <<>>, email |-> <<>>, password |-> ""],
      [kind |-> "object", name |-> Codes(<<"A", "n", "n">>),
       email |-> <<12288, 197>> \o Codes(<<"N", "N", "@", "x", ".", "o", "r", "g">>) \o <<10>>,
       password |-> "pw"],
      [kind |-> "object", name |-> <<8195>> \o Codes(<<"A", "n", "n", " ">>),
       email |-> <<229>> \o Codes(<<"n", "n", "@", "x", ".", "o", "r", "g">>),
       password |-> "pw"],
      [kind |-> "object", name |-> Codes(<<"E">>) \o <<56448>>,
       email |-> Codes(<<"e", "@", "x", ".", "o", "r", "g">>), password |-> "pw"],
      [kind |-> "object", name |-> Codes(<<" ">>) \o <<9>>,
       email |-> Codes(<<"e", "@", "x", ".", "o", "r", "g">>), password |-> "pw"] }

\* request bodies of login
LoginBodies ==
    { [kind |-> "null", email |-> <<>>, password |-> ""],
      [kind |-> "object", email |-> <<>>, password |-> "pw"],
      [kind |-> "object",
       email |-> <<197>> \o Codes(<<"n", "n", "@", "X", ".", "o", "r", "g", " ">>),
       password |-> "pw"],
      [kind |-> "object", email |-> Codes(<<"e", "@", "x", ".", "o", "r", "g">>),
       password |-> "qw"] }

\* the values of the topics key; has |-> FALSE when the key is absent.  A
\* topic entry holds the characters of course and topic (none when the key is
\* absent); its difficulty is <<>> when the key is absent.
TopicsValues ==
    { [has |-> FALSE, list |-> <<>>],
      [has |-> TRUE,
       list |-> << [course |-> <<>>, topic |-> <<>>, difficulty |-> <<>>],
                   [course |-> Codes(<<"P", "h", "y", "s">>), topic |-> Codes(<<" ">>),
                    difficulty |-> <<Codes(<<"H", "A", "R", "D">>)>>] >>],
      [has |-> TRUE,
       list |-> << [course |-> Codes(<<"P", "h", "y", "s">>), topic |-> <<10>>,
                    difficulty |-> <<Codes(<<"H", "a", "r", "d">>)>>],
                   [course |-> <<8195>>,
                    topic |-> Codes(<<" ", "M", "o", "t", "i", "o", "n">>) \o <<12288>>,
                    difficulty |-> <<Codes(<<"E", "a", "s", "y">>)>>] >>] }

\* the daily_hours key absent from the request
AbsentValue == [type |-> "absent", num |-> 0, den |-> 1, chars |-> <<>>]

\* request bodies of generate-plan
GeneratePlanBodies ==
    [kind : {"null", "empty"}, daily_hours : {AbsentValue},
     topics : {[has |-> FALSE, list |-> <<>>]}]
    \cup [kind : {"object"}, daily_hours : {AbsentValue, Str(Codes(<<"i", "n", "f">>))},
          topics : TopicsValues]

\* request bodies of update-progress; plan_id is "" and task_index is <<>>
\* when absent
UpdateBodies ==
    { [kind |-> "null", plan_id |-> "", task_index |-> <<>>, completed |-> FALSE,
       time_spent |-> 0],
      [kind |-> "object", plan_id |-> "", task_index |-> <<0>>, completed |-> TRUE,
       time_spent |-> 25],
      [kind |-> "object", plan_id |-> "p1", task_index |-> <<>>, completed |-> TRUE,
       time_spent |-> 0],
      [kind |-> "object", plan_id |-> "p1", task_index |-> <<0>>, completed |-> TRUE,
       time_spent |-> 25],
      [kind |-> "object", plan_id |-> "p1", task_index |-> <<0>>, completed |-> FALSE,
       time_spent |-> 0],
      [kind |-> "object", plan_id |-> "p1", task_index |-> <<1>>, completed |-> TRUE,
       time_spent |-> 0] }

\* ---- register, lines 135-201
\* lines 142-143 and 213: the strings of the request bodies as the handlers
\* convert them, a name by strip() and an e-mail by strip().lower()
Converted ==
    [s \in {body.name : body \in RegisterBodies} \cup {body.email : body \in RegisterBodies}
            \cup {body.email : body \in LoginBodies} |->
        [name |-> StripString(s), email |-> Text(LowerString(StripString(s)))]]

\* lines 137-160: the request up to the hashing of the password
Register ==
    \E t \in 1..MaxThreads, body \in RegisterBodies :
      /\ Free(t)
      /\ requests' = requests + 1
      /\ LET name == Converted[body.name].name
             email == Converted[body.email].email
             request == [NoRequest EXCEPT !.op = "register"]
         IN IF body.kind \in {"null", "empty"}
            THEN threads' = [threads EXCEPT ![t] =
                                Answer(request, Response(400, "No data provided", ""))]
            ELSE IF name = <<>> \/ email = "" \/ body.password = ""
            THEN threads' = [threads EXCEPT ![t] =
                                Answer(request, Response(400, "All fields are required", ""))]
            ELSE IF email \in DOMAIN users_store
            THEN threads' = [threads EXCEPT ![t] =
                                Answer(request, Response(409, "User already exists", ""))]
            ELSE /\ Cardinality(DOMAIN user_data)
                      + Cardinality({u \in 1..MaxThreads : threads[u].op = "register"
                                                           /\ threads[u].at = "hash"})
                    < MaxUsers
                 /\ threads' = [threads EXCEPT ![t] =
                                   At(request, "hash", [name |-> name, email |-> email,
                                                        password |-> body.password])]
      /\ UNCHANGED <<args, pc, locals, ret, users_store, user_by_id,
                     plans_store, user_data, plan_lists, plan_doc, caller,
                     stdout_errors>>

\* lines 163-179: the password is hashed, the user dict is made and put in
\* users_store; uuid.uuid4() (line 165) is an identifier not in use
RegisterStore ==
    \E t \in 1..MaxThreads :
      /\ threads[t].op = "register" /\ threads[t].at = "hash"
      /\ LET user_id == <<"u1", "u2", "u3", "u4">>[Cardinality(DOMAIN user_data) + 1]
             held == threads[t].locals
         IN /\ user_data' = Put(user_data, user_id,
                   [user_id |-> user_id, name |-> held.name, email |-> held.email,
                    password |-> held.password, total_study_time |-> 0,
                    plans_count |-> 0, completed_topics |-> 0])
            /\ users_store' = Put(users_store, held.email, user_id)
            /\ threads' = [threads EXCEPT ![t] = At(@, "index", [user_id |-> user_id])]
      /\ UNCHANGED <<args, pc, locals, ret, user_by_id, plans_store, plan_lists,
                     plan_doc, caller, requests, stdout_errors>>

\* lines 180-197: the user dict is put in user_by_id and the request answered
RegisterIndex ==
    \E t \in 1..MaxThreads :
      /\ threads[t].op = "register" /\ threads[t].at = "index"
      /\ user_by_id' = Put(user_by_id, threads[t].locals.user_id, threads[t].locals.user_id)
      /\ threads' = [threads EXCEPT ![t] = Answer(@, Response(201, "", ""))]
      /\ UNCHANGED <<args, pc, locals, ret, users_store, plans_store, user_data,
                     plan_lists, plan_doc, caller, requests, stdout_errors>>

\* ---- login, lines 206-255
\* lines 208-237: the request up to the writes; the password of a user dict
\* never changes, and bcrypt.checkpw accepts the password that was hashed
Login ==
    \E t \in 1..MaxThreads, body \in LoginBodies :
      /\ Free(t)
      /\ requests' = requests + 1
      /\ LET email == Converted[body.email].email
             request == [NoRequest EXCEPT !.op = "login"]
         IN IF body.kind \in {"null", "empty"}
            THEN threads' = [threads EXCEPT ![t] =
                                Answer(request, Response(400, "No data provided", ""))]
            ELSE IF email = "" \/ body.password = ""
            THEN threads' = [threads EXCEPT ![t] =
                                Answer(request, Response(400, "Email and password are required", ""))]
            ELSE IF email \notin DOMAIN users_store
            THEN threads' = [threads EXCEPT ![t] =
                                Answer(request, Response(401, "Invalid email or password", ""))]
            ELSE IF user_data[users_store[email]].password # body.password
            THEN threads' = [threads EXCEPT ![t] =
                                Answer(request, Response(401, "Invalid email or password", ""))]
            ELSE threads' = [threads EXCEPT ![t] =
                                At([request EXCEPT !.user = users_store[email]], "store",
                                   [email |-> email])]
      /\ UNCHANGED <<args, pc, locals, ret, users_store, user_by_id,
                     plans_store, user_data, plan_lists, plan_doc, caller,
                     stdout_errors>>

\* line 240: users_store[email] = user
LoginStore ==
    \E t \in 1..MaxThreads :
      /\ threads[t].op = "login" /\ threads[t].at = "store"
      /\ users_store' = Put(users_store, threads[t].locals.email, threads[t].user)
      /\ threads' = [threads EXCEPT ![t] = At(@, "index", <<>>)]
      /\ UNCHANGED <<args, pc, locals, ret, user_by_id, plans_store, user_data,
                     plan_lists, plan_doc, caller, requests, stdout_errors>>

\* lines 241-253: user_by_id[user["user_id"]] = user, and the answer
LoginIndex ==
    \E t \in 1..MaxThreads :
      /\ threads[t].op = "login" /\ threads[t].at = "index"
      /\ user_by_id' = Put(user_by_id, threads[t].user, threads[t].user)
      /\ threads' = [threads EXCEPT ![t] = Answer(@, Response(200, "", ""))]
      /\ UNCHANGED <<args, pc, locals, ret, users_store, plans_store, user_data,
                     plan_lists, plan_doc, caller, requests, stdout_errors>>

\* ---- generate_plan, lines 260-378
\* line 272: print() of the user's name raises UnicodeEncodeError when
\* standard output (UTF-8) cannot encode the name.  The handler 'strict'
\* refuses every surrogate (U+D800..U+DFFF); 'surrogateescape' writes the
\* surrogates U+DC80..U+DCFF as the bytes they stand for and refuses the
\* others; no other handler ('replace', 'backslashreplace', ...) raises.
PrintRaises(name, errors) ==
    \E k \in 1..Len(name) :
        /\ 55296 <= name[k] /\ name[k] <= 57343
        /\ \/ errors = "strict"
           \/ errors = "surrogateescape" /\ ~(56448 <= name[k] /\ name[k] <= 56575)

\* the elements of a sequence at the positions of K, in order
RECURSIVE Select(_, _, _)
Select(seq, K, k) ==
    IF k > Len(seq) THEN <<>>
    ELSE (IF k \in K THEN <<seq[k]>> ELSE <<>>) \o Select(seq, K, k + 1)

\* lines 284-298: the three lists handed to generate_simple_plan, for each
\* value of the topics key.  The entries whose topic is blank are skipped
\* (lines 293-294); the course of entry k is "Subject k" when blank (line
\* 289), and the difficulty is lowered, "medium" when absent (line 291).
Extracted ==
    [tv \in TopicsValues |->
        LET list == tv.list
            kept == {k \in 1..Len(list) : StripString(list[k].topic) # <<>>}
        IN [courses |->
                Select([k \in 1..Len(list) |->
                           IF StripString(list[k].course) # <<>>
                           THEN Text(StripString(list[k].course))
                           ELSE "Subject " \o Text(Decimal(k))], kept, 1),
            topics |->
                Select([k \in 1..Len(list) |-> Text(StripString(list[k].topic))], kept, 1),
            difficulties |->
                Select([k \in 1..Len(list) |->
                           IF list[k].difficulty = <<>> THEN "medium"
                           ELSE Text(LowerString(list[k].difficulty[1]))], kept, 1)]]

\* lines 263-304: the request up to the call of generate_simple_plan; an
\* exception is answered by the handler of lines 374-378, and daily_hours is
\* "2" when the key is absent (line 276)
GeneratePlan ==
    \E t \in 1..MaxThreads, header \in Headers, body \in GeneratePlanBodies :
      /\ Free(t)
      /\ requests' = requests + 1
      /\ LET user == get_user_from_token(header)
             list == IF body.topics.has THEN body.topics.list ELSE <<>>
             request == [NoRequest EXCEPT !.op = "generate_plan", !.user = user,
                                          !.body = [topics |-> body.topics]]
         IN IF user = ""
            THEN threads' = [threads EXCEPT ![t] =
                                Answer(request, Response(401, "Please login first", ""))]
            ELSE IF body.kind \in {"null", "empty"}
            THEN threads' = [threads EXCEPT ![t] =
                                Answer(request, Response(400, "No data provided", ""))]
            ELSE IF PrintRaises(user_data[user].name, stdout_errors)
            THEN threads' = [threads EXCEPT ![t] =
                                Answer(request, Response(500, "Failed to generate plan. Please try again.", ""))]
            ELSE IF list = <<>>
            THEN threads' = [threads EXCEPT ![t] =
                                Answer(request, Response(400, "At least one topic is required", ""))]
            ELSE IF Extracted[body.topics].topics = <<>>
            THEN threads' = [threads EXCEPT ![t] =
                                Answer(request, Response(400, "Please provide valid topics", ""))]
            ELSE /\ Cardinality(DOMAIN plan_doc)
                      + Cardinality({u \in 1..MaxThreads : threads[u].op = "generate_plan"
                                                           /\ threads[u].at = "call"})
                    < MaxPlans
                 /\ threads' = [threads EXCEPT ![t] =
                                   [At(request, "call", <<>>) EXCEPT !.frame =
                                       FreshFrame(Extracted[body.topics].courses,
                                                  Extracted[body.topics].topics,
                                                  Extracted[body.topics].difficulties,
                                                  IF body.daily_hours = AbsentValue
                                                  THEN Str(Codes(<<"2">>))
                                                  ELSE body.daily_hours)]]
      /\ UNCHANGED <<args, pc, locals, ret, users_store, user_by_id,
                     plans_store, user_data, plan_lists, plan_doc, caller,
                     stdout_errors>>

\* lines 304-331: generate_simple_plan has returned or raised; the plan
\* document is made, its tasks not completed and with no time spent (lines
\* 319-326), and plans_store asked for the user's key; uuid.uuid4() (line
\* 309) is an identifier not in use
GeneratePlanReturned ==
    \E t \in 1..MaxThreads :
      /\ threads[t].op = "generate_plan" /\ threads[t].at = "call"
      /\ caller = t
      /\ pc \in {"done", "raised"}
      /\ IF pc = "raised"
         THEN /\ threads' = [threads EXCEPT ![t] =
                   Answer(@, Response(500, "Failed to generate plan. Please try again.", ""))]
              /\ UNCHANGED plan_doc
         ELSE IF ret = <<>>
         THEN /\ threads' = [threads EXCEPT ![t] =
                   Answer(@, Response(500, "Failed to generate plan", ""))]
              /\ UNCHANGED plan_doc
         ELSE LET plan_id == <<"p1", "p2", "p3", "p4">>[Cardinality(DOMAIN plan_doc) + 1]
              IN /\ plan_doc' = Put(plan_doc, plan_id,
                        [plan_id |-> plan_id, user_id |-> threads[t].user,
                         daily_hours |-> daily_hours,
                         plan |-> [k \in 1..Len(ret) |->
                            [day |-> ret[k].day, course |-> ret[k].course,
                             topic |-> ret[k].topic, difficulty |-> ret[k].difficulty,
                             suggested_minutes |-> ret[k].suggested_minutes,
                             ai_hint |-> ret[k].ai_hint, break_after |-> ret[k].break_after,
                             completed |-> FALSE, time_spent |-> 0]]])
                 /\ threads' = [threads EXCEPT ![t] =
                        At(@, IF threads[t].user \in DOMAIN plans_store
                              THEN "append" ELSE "new_list", [plan_id |-> plan_id])]
      /\ Load([FreshFrame(<<>>, <<>>, <<>>, NoneValue) EXCEPT !.pc = "idle"])
      /\ caller' = 0
      /\ UNCHANGED <<users_store, user_by_id, plans_store, user_data,
                     plan_lists, requests, stdout_errors>>

\* line 332: plans_store[user_id] = []
GeneratePlanNewList ==
    \E t \in 1..MaxThreads :
      /\ threads[t].op = "generate_plan" /\ threads[t].at = "new_list"
      /\ plan_lists' = Append(plan_lists, <<>>)
      /\ plans_store' = Put(plans_store, threads[t].user, Len(plan_lists) + 1)
      /\ threads' = [threads EXCEPT ![t].at = "append"]
      /\ UNCHANGED <<args, pc, locals, ret, users_store, user_by_id, user_data,
                     plan_doc, caller, requests, stdout_errors>>

\* line 333: plans_store[user_id].append(plan_doc)
GeneratePlanAppend ==
    \E t \in 1..MaxThreads :
      /\ threads[t].op = "generate_plan" /\ threads[t].at = "append"
      /\ plan_lists' = [plan_lists EXCEPT ![plans_store[threads[t].user]] =
                           Append(@, threads[t].locals.plan_id)]
      /\ threads' = [threads EXCEPT ![t].at = "count"]
      /\ UNCHANGED <<args, pc, locals, ret, users_store, user_by_id,
                     plans_store, user_data, plan_doc, caller, requests,
                     stdout_errors>>

\* line 336: user.get("plans_count", 0) is read
GeneratePlanCount ==
    \E t \in 1..MaxThreads :
      /\ threads[t].op = "generate_plan" /\ threads[t].at = "count"
      /\ threads' = [threads EXCEPT ![t] =
            At(@, "counted", [plan_id |-> threads[t].locals.plan_id,
                              plans_count |-> user_data[threads[t].user].plans_count])]
      /\ UNCHANGED <<args, pc, locals, ret, users_store, user_by_id,
                     plans_store, user_data, plan_lists, plan_doc, caller,
                     requests, stdout_errors>>

\* lines 336-372: user["plans_count"] is written and the plan answered
GeneratePlanStore ==
    \E t \in 1..MaxThreads :
      /\ threads[t].op = "generate_plan" /\ threads[t].at = "counted"
      /\ user_data' = [user_data EXCEPT ![threads[t].user].plans_count =
                          threads[t].locals.plans_count + 1]
      /\ threads' = [threads EXCEPT ![t] = Answer(@, Response(201, "", threads[t].locals.plan_id))]
      /\ UNCHANGED <<args, pc, locals, ret, users_store, user_by_id,
                     plans_store, plan_lists, plan_doc, caller, requests,
                     stdout_errors>>

\* ---- update_progress, lines 469-550
\* every user's plans searched for the plan_id
SearchedUserAny(uid, pid) ==
    IF \E p \in DOMAIN plan_doc : p = pid /\ plan_doc[p].user_id \in DOMAIN plans_store
    THEN plan_doc[pid].user_id
    ELSE uid

\* lines 486-487: the user whose plans are searched for the plan_id
SearchedUser(uid, pid) == uid

\* lines 471-487: the request up to the search; user_plans is the list of
\* the user's plans, 0 standing for the new empty list of the default
UpdateProgress ==
    \E t \in 1..MaxThreads, header \in Headers, body \in UpdateBodies :
      /\ Free(t)
      /\ requests' = requests + 1
      /\ LET user == get_user_from_token(header)
             owner == SearchedUser(user, body.plan_id)
             request == [NoRequest EXCEPT
                            !.op = "update_progress", !.user = user,
                            !.body = [plan_id |-> body.plan_id, task_index |-> body.task_index,
                                      completed |-> body.completed,
                                      time_spent |-> body.time_spent]]
         IN IF user = ""
            THEN threads' = [threads EXCEPT ![t] =
                                Answer(request, Response(401, "Authentication required", ""))]
            ELSE IF body.kind = "null"
            THEN threads' = [threads EXCEPT ![t] =
                                Answer(request, Response(500, "Failed to update progress", ""))]
            ELSE IF body.plan_id = "" \/ body.task_index = <<>>
            THEN threads' = [threads EXCEPT ![t] =
                                Answer(request, Response(400, "Plan ID and task index are required", ""))]
            ELSE /\ user_data[user].total_study_time + body.time_spent <= MaxStudyTime
                 /\ body.completed => user_data[user].completed_topics < MaxCompleted
                 /\ threads' = [threads EXCEPT ![t] =
                       At(request, "find",
                          [user_plans |-> IF owner \in DOMAIN plans_store
                                          THEN plans_store[owner] ELSE 0,
                           idx |-> 0])]
      /\ UNCHANGED <<args, pc, locals, ret, users_store, user_by_id,
                     plans_store, user_data, plan_lists, plan_doc, caller,
                     stdout_errors>>

\* lines 489-498: one turn of the loop over user_plans
UpdateProgressFind ==
    \E t \in 1..MaxThreads :
      /\ threads[t].op = "update_progress" /\ threads[t].at = "find"
      /\ LET held == threads[t].locals
             user_plans == IF held.user_plans = 0 THEN <<>> ELSE plan_lists[held.user_plans]
         IN IF held.idx >= Len(user_plans)
            THEN threads' = [threads EXCEPT ![t] =
                                Answer(@, Response(404, "Plan not found", ""))]
            ELSE IF plan_doc[user_plans[held.idx + 1]].plan_id = threads[t].body.plan_id
            THEN threads' = [threads EXCEPT ![t] =
                                At(@, "task", [plan |-> user_plans[held.idx + 1],
                                               plan_idx |-> held.idx])]
            ELSE threads' = [threads EXCEPT ![t].locals.idx = @ + 1]
      /\ UNCHANGED <<args, pc, locals, ret, users_store, user_by_id,
                     plans_store, user_data, plan_lists, plan_doc, caller,
                     requests, stdout_errors>>

\* lines 501-502: the test of the task index, and the task's completed flag
UpdateProgressTask ==
    \E t \in 1..MaxThreads :
      /\ threads[t].op = "update_progress" /\ threads[t].at = "task"
      /\ LET task_index == threads[t].body.task_index[1]
             p == threads[t].locals.plan
         IN IF 0 <= task_index /\ task_index < Len(plan_doc[p].plan)
            THEN /\ plan_doc' = [plan_doc EXCEPT ![p].plan[task_index + 1].completed =
                                    threads[t].body.completed]
                 /\ threads' = [threads EXCEPT ![t].at = "spent"]
            ELSE /\ threads' = [threads EXCEPT ![t] =
                                   Answer(@, Response(400, "Invalid task index", ""))]
                 /\ UNCHANGED plan_doc
      /\ UNCHANGED <<args, pc, locals, ret, users_store, user_by_id,
                     plans_store, user_data, plan_lists, caller, requests,
                     stdout_errors>>

\* line 503: the task's time_spent
UpdateProgressSpent ==
    \E t \in 1..MaxThreads :
      /\ threads[t].op = "update_progress" /\ threads[t].at = "spent"
      /\ plan_doc' = [plan_doc EXCEPT
            ![threads[t].locals.plan].plan[threads[t].body.task_index[1] + 1].time_spent =
                threads[t].body.time_spent]
      /\ threads' = [threads EXCEPT ![t].at = "total"]
      /\ UNCHANGED <<args, pc, locals, ret, users_store, user_by_id,
                     plans_store, user_data, plan_lists, caller, requests,
                     stdout_errors>>

\* line 506: user.get("total_study_time", 0) is read
UpdateProgressTotal ==
    \E t \in 1..MaxThreads :
      /\ threads[t].op = "update_progress" /\ threads[t].at = "total"
      /\ threads' = [threads EXCEPT
            ![t].at = "add",
            ![t].locals = [plan |-> @.plan, plan_idx |-> @.plan_idx,
                           read |-> user_data[threads[t].user].total_study_time]]
      /\ UNCHANGED <<args, pc, locals, ret, users_store, user_by_id,
                     plans_store, user_data, plan_lists, plan_doc, caller,
                     requests, stdout_errors>>

\* lines 506-507: user["total_study_time"] is written
UpdateProgressAdd ==
    \E t \in 1..MaxThreads :
      /\ threads[t].op = "update_progress" /\ threads[t].at = "add"
      /\ user_data' = [user_data EXCEPT ![threads[t].user].total_study_time =
                          threads[t].locals.read + threads[t].body.time_spent]
      /\ threads' = [threads EXCEPT
            ![t].at = IF threads[t].body.completed THEN "completed" ELSE "put",
            ![t].locals = [plan |-> @.plan, plan_idx |-> @.plan_idx]]
      /\ UNCHANGED <<args, pc, locals, ret, users_store, user_by_id,
                     plans_store, plan_lists, plan_doc, caller, requests,
                     stdout_errors>>

\* line 508: user.get("completed_topics", 0) is read
UpdateProgressCompleted ==
    \E t \in 1..MaxThreads :
      /\ threads[t].op = "update_progress" /\ threads[t].at = "completed"
      /\ threads' = [threads EXCEPT
            ![t].at = "count",
            ![t].locals = [plan |-> @.plan, plan_idx |-> @.plan_idx,
                           read |-> user_data[threads[t].user].completed_topics]]
      /\ UNCHANGED <<args, pc, locals, ret, users_store, user_by_id,
                     plans_store, user_data, plan_lists, plan_doc, caller,
                     requests, stdout_errors>>

\* line 508: user["completed_topics"] is written
UpdateProgressCount ==
    \E t \in 1..MaxThreads :
      /\ threads[t].op = "update_progress" /\ threads[t].at = "count"
      /\ user_data' = [user_data EXCEPT ![threads[t].user].completed_topics =
                          threads[t].locals.read + 1]
      /\ threads' = [threads EXCEPT
            ![t].at = "put",
            ![t].locals = [plan |-> @.plan, plan_idx |-> @.plan_idx]]
      /\ UNCHANGED <<args, pc, locals, ret, users_store, user_by_id,
                     plans_store, plan_lists, plan_doc, caller, requests,
                     stdout_errors>>

\* lines 511-550: plans_store[user_id][plan_idx] = plan, and the answer; a
\* KeyError or an IndexError is answered by the handler of lines 548-550
UpdateProgressPut ==
    \E t \in 1..MaxThreads :
      /\ threads[t].op = "update_progress" /\ threads[t].at = "put"
      /\ IF /\ threads[t].user \in DOMAIN plans_store
            /\ threads[t].locals.plan_idx < Len(plan_lists[plans_store[threads[t].user]])
         THEN /\ plan_lists' = [plan_lists EXCEPT
                    ![plans_store[threads[t].user]][threads[t].locals.plan_idx + 1] =
                        threads[t].locals.plan]
              /\ threads' = [threads EXCEPT ![t] =
                    Answer(@, Response(200, "", threads[t].body.plan_id))]
         ELSE /\ threads' = [threads EXCEPT ![t] =
                    Answer(@, Response(500, "Failed to update progress", ""))]
              /\ UNCHANGED plan_lists
      /\ UNCHANGED <<args, pc, locals, ret, users_store, user_by_id,
                     plans_store, user_data, plan_doc, caller, requests,
                     stdout_errors>>

\* ---- a call of generate_simple_plan from outside the handlers
CallArguments ==
    { <<<<>>, <<>>, <<>>, NoneValue>>,
      <<<<>>, <<>>, <<>>, Str(Codes(<<"i", "n", "f">>))>> }

Call ==
    \E t \in 1..MaxThreads, a \in CallArguments :
      /\ Free(t)
      /\ requests' = requests + 1
      /\ threads' = [threads EXCEPT ![t] =
            [NoRequest EXCEPT !.op = "call", !.at = "call", !.frame =
                FreshFrame(a[1], a[2], a[3], a[4])]]
      /\ UNCHANGED <<args, pc, locals, ret, users_store, user_by_id,
                     plans_store, user_data, plan_lists, plan_doc, caller,
                     stdout_errors>>

\* the call has returned its plan, or raised the exception of line 630
CallReturn ==
    \E t \in 1..MaxThreads :
      /\ threads[t].op = "call" /\ threads[t].at = "call"
      /\ caller = t
      /\ pc \in {"done", "raised"}
      /\ threads' = [threads EXCEPT ![t] =
            Answer(@, IF pc = "raised"
                      THEN Response(0, QuotaError(ParseHours(daily_hours)), "")
                      ELSE Response(0, "", ""))]
      /\ Load([FreshFrame(<<>>, <<>>, <<>>, NoneValue) EXCEPT !.pc = "idle"])
      /\ caller' = 0
      /\ UNCHANGED <<users_store, user_by_id, plans_store, user_data,
                     plan_lists, plan_doc, requests, stdout_errors>>

\* the response of a handler that has returned is sent: the thread ends
Respond ==
    \E t \in 1..MaxThreads :
      /\ threads[t].at = "respond"
      /\ threads' = [threads EXCEPT ![t] = NoRequest]
      /\ UNCHANGED <<args, pc, locals, ret, users_store, user_by_id,
                     plans_store, user_data, plan_lists, plan_doc, caller,
                     requests, stdout_errors>>

\* The state when the module is loaded.  db is None (line 93), which
\* init_mongodb returns after the prints of lines 90-91, so sys.stdout has an
\* encoding that holds their symbols: UTF-8, which the interpreter chooses
\* with the error handler 'strict' under a UTF-8 locale and with
\* 'surrogateescape' under the C or POSIX locale.
ApiInit ==
    /\ courses = <<>>
    /\ topics = <<>>
    /\ difficulties = <<>>
    /\ daily_hours = NoneValue
    /\ pc = "idle"
    /\ daily_quota = 0
    /\ base_minutes = 0
    /\ plan = <<>>
    /\ day = 0
    /\ used_today = 0
    /\ i = 0
    /\ course = ""
    /\ level = ""
    /\ suggested = 0
    /\ remaining = 0
    /\ ret = <<>>
    /\ StoresInit
    /\ stdout_errors \in {"strict", "surrogateescape"}

ApiNext ==
    \/ Register
    \/ RegisterStore
    \/ RegisterIndex
    \/ Login
    \/ LoginStore
    \/ LoginIndex
    \/ GeneratePlan
    \/ Switch
    \/ Begin
    \/ Raise
    \/ ForTopic
    \/ Carve
    \/ Return
    \/ GeneratePlanReturned
    \/ GeneratePlanNewList
    \/ GeneratePlanAppend
    \/ GeneratePlanCount
    \/ GeneratePlanStore
    \/ UpdateProgress
    \/ UpdateProgressFind
    \/ UpdateProgressTask
    \/ UpdateProgressSpent
    \/ UpdateProgressTotal
    \/ UpdateProgressAdd
    \/ UpdateProgressCompleted
    \/ UpdateProgressCount
    \/ UpdateProgressPut
    \/ Call
    \/ CallReturn
    \/ Respond

ApiSpec == ApiInit /\ [][ApiNext]_vars

\* ------------------------------------------------- vocabulary of the claims
\* the hours the function computes with
Hours == ParseHours(daily_hours)

\* f > 0
Positive(f) == f.cls # "nan" /\ ~f.neg /\ (f.cls = "inf" \/ f.mant # <<>>)

HoursPositive == Positive(Hours)

Returned == pc = "done"

Minutes(p, k) == p[k].suggested_minutes

\* the topic names of a plan with runs of equal names collapsed to one
RECURSIVE Collapse(_)
Collapse(s) ==
    IF Len(s) <= 1 THEN s
    ELSE IF s[1] = s[2] THEN Collapse(Tail(s))
    ELSE <<s[1]>> \o Collapse(Tail(s))

TopicsOf(p) == [k \in 1..Len(p) |-> p[k].topic]

RECURSIVE SumOver(_, _)
SumOver(p, K) ==
    IF K = {} THEN 0
    ELSE LET k == CHOOSE x \in K : TRUE
         IN Minutes(p, k) + SumOver(p, K \ {k})

\* minutes the plan gives to a topic name
TopicMinutes(p, name) == SumOver(p, {k \in 1..Len(p) : p[k].topic = name})

\* minutes the plan puts on a day label
DayMinutes(p, label) == SumOver(p, {k \in 1..Len(p) : p[k].day = label})

\* minutes on the day of chunk k, up to and including chunk k
DayUsedThrough(p, k) == SumOver(p, {j \in 1..k : p[j].day = p[k].day})

\* chunk k is followed by another chunk of the same topic
NotLastOfTopic(p, k) == k < Len(p) /\ p[k + 1].topic = p[k].topic

\* every run of a positive quota fits under the cap on the plan length
CapNotReached == (daily_quota > 0 /\ pc = "while") => Len(plan) < MaxPlanLen

\* ------------------------------------------------------------------ claims

\* C1 (as stated): for a non-empty topic list and daily hours > 0 the returned
\* plan has exactly one chunk per topic, in input order.
C1_OneChunkPerTopic ==
    (Returned /\ topics # <<>> /\ HoursPositive) =>
        /\ Len(ret) = Len(topics)
        /\ \A k \in 1..Len(ret) : ret[k].topic = topics[k]

\* C1 (amended): every plan returned for a non-empty topic list and daily
\* hours > 0 has at least one chunk per topic, the topics in input order, so
\* its length is at least the number of topics.
C1_AtLeastOneChunkPerTopic ==
    (Returned /\ topics # <<>> /\ HoursPositive) =>
        /\ Len(ret) >= Len(topics)
        /\ Collapse(TopicsOf(ret)) = topics

\* a plan returned for hours > 0 in which a topic was split over two days
C1_Witness ==
    /\ Returned /\ topics # <<>> /\ HoursPositive
    /\ Len(ret) > Len(topics)
    /\ \E k \in 1..Len(ret) : NotLastOfTopic(ret, k) /\ ret[k + 1].day # ret[k].day

\* C2: the carving loop terminates for every daily-hours value, stated by its
\* variant: every iteration of the while loop strictly decreases remaining.
C2_CarveDecreasesRemaining ==
    [][pc = "while" => remaining' < remaining]_vars

\* float(v) as the claim reads it: ok is FALSE for a value that does not parse
Parsed(v) ==
    IF v.type = "num" THEN AFloat(FloatOfRatio(v.num, v.den)) ELSE ParseFloat(v.chars)

Missing(v) == v.type = "none" \/ (v.type = "str" /\ v.chars = <<>>)

\* the quota C3 states for the value v that parses as p
StatedQuota(v, p) ==
    IF Missing(v) \/ ~p.ok \/ ~Positive(p.value) THEN 120
    ELSE IntOf(FloatTimes60(p.value))

\* C3: the quota is 120 when daily_hours is missing, unparsable or parses to
\* a number <= 0, and floor(hours * 60) in every other case.
C3_QuotaFallback ==
    pc \in {"for", "while", "done"} =>
        daily_quota = StatedQuota(daily_hours, Parsed(daily_hours))

\* C4: in a returned plan the chunks are in input topic order, the chunks of
\* one topic are contiguous, and they sum to the topic's suggested minutes.
C4_OrderContiguitySum ==
    (Returned /\ topics # <<>>) =>
        /\ Collapse(TopicsOf(ret)) = topics
        /\ \A k \in 1..Len(topics) :
              TopicMinutes(ret, topics[k])
                  = Suggested(base_minutes, LevelAt(difficulties, k))

\* a returned plan in which some topic has two chunks
C4_Witness ==
    /\ Returned /\ Len(topics) >= 2
    /\ \E k \in 1..Len(ret) : NotLastOfTopic(ret, k) /\ Minutes(ret, k) > 0

\* C5 (as stated): in a returned plan no chunk that is followed by another
\* chunk of the same topic is shorter than 15 minutes.
C5_NonLastChunkAtLeast15 ==
    Returned =>
        \A k \in 1..Len(ret) : NotLastOfTopic(ret, k) => Minutes(ret, k) >= 15

\* C5 (amended): a chunk is shorter than 15 minutes only when it is the last
\* chunk of its topic or when it takes all that was left of its day's quota.
C5_ShortChunkIsLastOrFillsDay ==
    \A k \in 1..Len(plan) :
        Minutes(plan, k) < 15 =>
            \/ ~NotLastOfTopic(plan, k)
            \/ DayUsedThrough(plan, k) = daily_quota

\* a returned plan with a chunk under 15 minutes that is not the last of its
\* topic and that fills its day
C5_Witness ==
    /\ Returned /\ daily_quota >= 15
    /\ \E k \in 1..Len(ret) :
          /\ NotLastOfTopic(ret, k)
          /\ Minutes(ret, k) < 15 /\ Minutes(ret, k) > 0
          /\ DayUsedThrough(ret, k) = daily_quota

\* C6: with a positive daily quota every emitted chunk has at least 1 minute
\* and at most the daily quota.
C6_ChunkWithinQuota ==
    daily_quota > 0 =>
        \A k \in 1..Len(plan) : Minutes(plan, k) >= 1 /\ Minutes(plan, k) <= daily_quota

\* a plan of a positive quota holding a chunk of the whole quota and a chunk
\* emitted right after a day rollover
C6_Witness ==
    /\ daily_quota > 0
    /\ \E k \in 1..Len(plan) : Minutes(plan, k) = daily_quota
    /\ \E k \in 2..Len(plan) : plan[k].day # plan[k - 1].day

\* C7: at every step of the packing loop 0 <= used_today <= daily_quota, and
\* in a returned plan the chunks of one day never sum to more than the quota.
C7_UsedTodayWithinQuota ==
    /\ pc \in {"for", "while"} => (0 <= used_today /\ used_today <= daily_quota)
    /\ Returned => \A k \in 1..Len(ret) : DayMinutes(ret, ret[k].day) <= daily_quota

\* C8: in a plan returned for a non-empty topic list with a positive quota the
\* first chunk is on Day 1 and the day number never decreases.
C8_DaysStartAtOneAndNeverDecrease ==
    (Returned /\ topics # <<>> /\ daily_quota > 0) =>
        /\ ret # <<>>
        /\ ret[1].day = Codes(<<"D", "a", "y", " ", "1">>)
        /\ \A k \in 1..(Len(ret) - 1) : DayNumber(ret[k].day) <= DayNumber(ret[k + 1].day)

\* a returned plan that spans more than one day
C8_Witness ==
    /\ Returned /\ daily_quota > 0 /\ Len(ret) >= 2
    /\ DayNumber(ret[Len(ret)].day) > DayNumber(ret[1].day)

\* C9: a topic's suggested minutes are max(15, base + adj), base being
\* max(20, floor(quota / number of topics)) and adj -5 for easy, 0 for medium,
\* +10 for hard, 0 for any other difficulty string.
C9_SuggestedMinutes ==
    pc = "while" =>
        LET base == IF daily_quota \div Len(topics) > 20
                    THEN daily_quota \div Len(topics) ELSE 20
            lvl == IF i <= Len(difficulties) THEN difficulties[i] ELSE "medium"
            adj == CASE lvl = "easy" -> -5
                     [] lvl = "medium" -> 0
                     [] lvl = "hard" -> 10
                     [] OTHER -> 0
        IN /\ level = lvl
           /\ suggested = (IF base + adj > 15 THEN base + adj ELSE 15)

\* a topic of an unrecognized difficulty given the medium share, here the
\* share of two topics out of a quota of 120 minutes
C9_Witness ==
    /\ pc = "while" /\ level = "expert"
    /\ daily_quota = 120 /\ Len(topics) = 2 /\ suggested = 60

\* C10: the break_after of every chunk follows from the chunk's own minutes:
\* 10 from 60 minutes on, 5 from 30 to 59 minutes, absent below 30.
C10_BreakAfterOfChunk ==
    \A k \in 1..Len(plan) :
        /\ Minutes(plan, k) >= 60 => plan[k].break_after = <<10>>
        /\ (30 <= Minutes(plan, k) /\ Minutes(plan, k) < 60) => plan[k].break_after = <<5>>
        /\ Minutes(plan, k) < 30 => plan[k].break_after = <<>>

\* a plan with a chunk of 30 to 59 minutes, and a chunk under 30 minutes that
\* was cut from a topic of 30 minutes or more and carries no break
C10_Witness ==
    /\ \E k \in 1..Len(plan) :
          /\ 30 <= Minutes(plan, k) /\ Minutes(plan, k) < 60
          /\ plan[k].break_after = <<5>>
    /\ \E k \in 1..Len(plan) :
          /\ Minutes(plan, k) < 30
          /\ NotLastOfTopic(plan, k)
          /\ Minutes(plan, k) + Minutes(plan, k + 1) >= 30
          /\ plan[k].break_after = <<>>

\* the day labels of a plan
DaysOf(p) == {p[k].day : k \in 1..Len(p)}

\* the suggested minutes of all topics, from the arguments
RECURSIVE TotalSuggested(_)
TotalSuggested(k) ==
    IF k = 0 THEN 0
    ELSE TotalSuggested(k - 1)
           + Suggested(BaseMinutes(daily_quota, Len(topics)), LevelAt(difficulties, k))

\* ceil(a / b) for b > 0
CeilDiv(a, b) == (a + b - 1) \div b

\* C13: with a positive daily quota, in the returned plan every day before
\* the last sums to exactly the quota, no day number is skipped, and the
\* number of distinct days is ceil(total suggested minutes / daily quota).
C13_DaysFilledInOrder ==
    (Returned /\ topics # <<>> /\ daily_quota > 0) =>
        LET last == DayNumber(ret[Len(ret)].day)
        IN /\ \A d \in 1..last : \E k \in 1..Len(ret) : DayNumber(ret[k].day) = d
           /\ \A k \in 1..Len(ret) : DayNumber(ret[k].day) \in 1..last
           /\ \A k \in 1..Len(ret) :
                 DayNumber(ret[k].day) < last => DayMinutes(ret, ret[k].day) = daily_quota
           /\ Cardinality(DaysOf(ret)) = CeilDiv(TotalSuggested(Len(topics)), daily_quota)

\* a returned plan of three days or more whose last day is not full
C13_Witness ==
    /\ Returned /\ topics # <<>> /\ daily_quota > 0
    /\ Cardinality(DaysOf(ret)) >= 3
    /\ DayMinutes(ret, ret[Len(ret)].day) < daily_quota

\* the topics of a request are missing or all blank
NoValidTopics(tv) ==
    ~tv.has \/ \A k \in 1..Len(tv.list) : StripString(tv.list[k].topic) = <<>>

\* C11: a call of generate_simple_plan with an empty topic list ends by
\* returning the empty plan, and a generate-plan request whose topics are
\* missing or all blank ends in an error response, with no plan appended and
\* every plans_count unchanged.
C11_EmptyTopicsRejected ==
    /\ []((topics = <<>> /\ pc \in {"done", "raised"}) => (pc = "done" /\ ret = <<>>))
    /\ [][\A t \in 1..MaxThreads :
            (/\ threads[t].at = "idle"
             /\ threads'[t].op = "generate_plan"
             /\ NoValidTopics(threads'[t].body.topics))
            => (/\ threads'[t].at = "respond"
                /\ threads'[t].resp.status >= 400
                /\ threads'[t].resp.error # ""
                /\ plans_store' = plans_store
                /\ plan_lists' = plan_lists
                /\ plan_doc' = plan_doc
                /\ user_data' = user_data)]_vars

\* the plans of a user: the documents of the list plans_store[user_id], none
\* without the key
UserPlans(uid) ==
    IF uid \in DOMAIN plans_store
    THEN [k \in 1..Len(plan_lists[plans_store[uid]]) |->
             plan_doc[plan_lists[plans_store[uid]][k]]]
    ELSE <<>>

\* the plan_id names a plan of a user other than uid
ForeignPlan(uid, pid) ==
    \E p \in DOMAIN plan_doc : plan_doc[p].plan_id = pid /\ plan_doc[p].user_id # uid

\* thread t takes a step of an update-progress call whose user is
\* authenticated and which names a plan of another user
ForeignCallStep(t) ==
    /\ threads'[t] # threads[t]
    /\ threads'[t].op = "update_progress"
    /\ threads'[t].user # ""
    /\ ForeignPlan(threads'[t].user, threads'[t].body.plan_id)

\* the step leaves every stored plan and every user's counters as they are
PlansAndCountersUnchanged ==
    /\ plans_store' = plans_store
    /\ plan_lists' = plan_lists
    /\ plan_doc' = plan_doc
    /\ user_data' = user_data

\* the response of thread t after the step, if it has one
Answered(t, code, msg) ==
    threads'[t].at = "respond" =>
        (threads'[t].resp.status = code /\ threads'[t].resp.error = msg)

\* C12 (as stated): an update-progress call authenticated as user A that
\* names a plan of another user B changes no stored plan and no user's
\* counters, and is answered 'Plan not found'.
C12_ForeignPlanNotFound ==
    [][\A t \in 1..MaxThreads :
          ForeignCallStep(t) =>
              (PlansAndCountersUnchanged /\ Answered(t, 404, "Plan not found"))]_vars

\* C12 (amended): an update-progress call authenticated as user A that names
\* a plan of another user B changes no stored plan and no user's counters;
\* it is answered 'Plan not found' when it carries a task index, and 'Plan ID
\* and task index are required' when it carries none.
C12_ForeignPlanUntouched ==
    [][\A t \in 1..MaxThreads :
          ForeignCallStep(t) =>
              /\ PlansAndCountersUnchanged
              /\ IF threads'[t].body.task_index = <<>>
                 THEN Answered(t, 400, "Plan ID and task index are required")
                 ELSE Answered(t, 404, "Plan not found")]_vars

\* user A, who has a plan, named a task of a plan of B and was answered 'Plan
\* not found'
C12_Witness ==
    \E t \in 1..MaxThreads :
      /\ threads[t].at = "respond"
      /\ threads[t].op = "update_progress"
      /\ threads[t].user # ""
      /\ ForeignPlan(threads[t].user, threads[t].body.plan_id)
      /\ UserPlans(threads[t].user) # <<>>
      /\ threads[t].body.task_index = <<0>>
      /\ threads[t].resp.status = 404 /\ threads[t].resp.error = "Plan not found"

\* the tasks of a user's plans whose completed flag is true
RECURSIVE CompletedTasks(_)
CompletedTasks(user_plans) ==
    IF user_plans = <<>> THEN 0
    ELSE Cardinality({k \in 1..Len(Head(user_plans).plan) : Head(user_plans).plan[k].completed})
           + CompletedTasks(Tail(user_plans))

\* no call is in progress: every request taken has been answered
NoCallInProgress == \A t \in 1..MaxThreads : threads[t].at \in {"idle", "respond"}

\* C14: after any sequence of calls, a user's completed_topics counter equals
\* the number of tasks of the user's plans whose completed flag is true.
C14_CompletedTopicsCountsFlags ==
    NoCallInProgress =>
        \A u \in DOMAIN user_by_id :
            user_data[user_by_id[u]].completed_topics = CompletedTasks(UserPlans(u))

====
